---- MODULE Spec2Model ----
(***************************************************************************)
(* State-machine model of the api-core backend (FastAPI + SQLAlchemy).     *)
(* The database tables are the state; every HTTP handler is one action     *)
(* that runs to its commit or to the exception that ends it (each request  *)
(* owns one session, and an exception before commit discards the session). *)
(* `resp` records the request just handled and the response it got.        *)
(*                                                                         *)
(* Columns that no handler reads in a condition and no property mentions   *)
(* (social_name, pronoun, profile_image_url, created_at, updated_at, and   *)
(* the free-text columns of donations and articles) are left out of the    *)
(* rows.  Strings whose characters matter (emails, names, CPFs, titles)    *)
(* are sequences of one-character strings.  Time is counted in minutes.    *)
(***************************************************************************)
EXTENDS Integers, Sequences, FiniteSets, TLC

VARIABLES users, tokens, now, orgs, donations, ledger, articles, chats, inflight, resp

vars == <<users, tokens, now, orgs, donations, ledger, articles, chats, inflight, resp>>

(***************************************************************************)
(* Optional values (Python None / SQL NULL)                                *)
(***************************************************************************)
None == <<>>
Some(x) == <<x>>
IsNone(o) == o = <<>>
IsSome(o) == o # <<>>
Val(o) == o[1]

Range(s) == {s[i] : i \in DOMAIN s}

(***************************************************************************)
(* Bounds of the model                                                     *)
(***************************************************************************)
MaxUsers == 5
MaxTokens == 2
MaxInstant == 0

(***************************************************************************)
(* Program constants                                                       *)
(***************************************************************************)
JWT_EXPIRES_MIN == 60
REFRESH_DAYS == 7
MIN_PASSWORD_LEN == 6
CPF_DIGITS == 11

AccessTTL == JWT_EXPIRES_MIN
RefreshTTL == REFRESH_DAYS * 24 * 60

BENEFICIARIO == "beneficiario"
ASSISTENTE == "assistente"
ADMIN == "admin"
Role == {BENEFICIARIO, ASSISTENTE, ADMIN}

(***************************************************************************)
(* Characters                                                              *)
(***************************************************************************)
Digits == {"0", "1", "2", "3", "4", "5", "6", "7", "8", "9"}
Upper == {"A", "B", "C", "D", "E"}
Lower == {"a", "b", "c", "d", "e", "i", "l", "m", "n", "o", "r", "s", "t", "x"}
\* A letter of Unicode category Lu that has no lowercase mapping, written by
\* its code point: MATHEMATICAL BOLD CAPITAL A.  str.isalnum and str.isupper
\* are true of it and str.lower leaves it as it is.
UpperNoLower == {"U+1D400"}

\* str.isdigit / str.isalnum / str.isspace on one character
isdigit(ch) == ch \in Digits
isalnum(ch) == ch \in Digits \cup Upper \cup Lower \cup UpperNoLower
isspace(ch) == ch = " "

\* str.lower on one character and on a string
lower_ch(ch) ==
    CASE ch = "A" -> "a"
      [] ch = "B" -> "b"
      [] ch = "C" -> "c"
      [] ch = "D" -> "d"
      [] ch = "E" -> "e"
      [] OTHER -> ch
lower(s) == [i \in 1..Len(s) |-> lower_ch(s[i])]
\* str.upper / SQL upper() on one character and on a string
upper_ch(ch) ==
    CASE ch = "a" -> "A"
      [] ch = "b" -> "B"
      [] ch = "c" -> "C"
      [] ch = "d" -> "D"
      [] ch = "e" -> "E"
      [] ch = "i" -> "I"
      [] ch = "l" -> "L"
      [] ch = "m" -> "M"
      [] ch = "n" -> "N"
      [] ch = "o" -> "O"
      [] ch = "r" -> "R"
      [] ch = "s" -> "S"
      [] ch = "t" -> "T"
      [] ch = "x" -> "X"
      [] OTHER -> ch
upper(s) == [i \in 1..Len(s) |-> upper_ch(s[i])]

\* func.lower of a nullable column
lower_opt(o) == IF o = <<>> THEN <<>> ELSE <<lower(o[1])>>

\* ''.join(filter(str.isdigit, cpf))
only_digits(s) == SelectSeq(s, isdigit)

(***************************************************************************)
(* Passwords: hash_password / verify_password                              *)
(***************************************************************************)
PW_SHORT == <<"a", "b", "c">>
PW_GOOD == <<"s", "e", "n", "h", "a", "1">>
PW_OTHER == <<"o", "u", "t", "r", "a", "2">>

hash_password(p) == <<"bcrypt", p>>
verify_password(p, h) == h = <<"bcrypt", p>>

(***************************************************************************)
(* JWT: a token string is determined by its claims and by the key that     *)
(* signed it.                                                              *)
(***************************************************************************)
SECRET == "JWT_SECRET"
FORGED == "other-key"

jwt_encode(sub, exp, type) == [sub |-> sub, exp |-> exp, type |-> type, sig |-> SECRET]

create_access_token(user_id, t) == jwt_encode(user_id, t + AccessTTL, "access")
create_refresh_token(user_id, t) == jwt_encode(user_id, t + RefreshTTL, "refresh")

\* jwt.decode: the signature must verify and `exp` must not be before now;
\* any failure gives None.
decode_token(tok, t) ==
    IF tok.sig = SECRET /\ ~(tok.exp < t)
    THEN Some([sub |-> tok.sub, exp |-> tok.exp, type |-> tok.type])
    ELSE None

(***************************************************************************)
(* Query helpers                                                           *)
(***************************************************************************)
\* query.first(): the lowest id among the matching rows, None when none match
First(ids) == IF ids = {} THEN None ELSE Some(CHOOSE i \in ids : \A j \in ids : i <= j)

UserIds == DOMAIN users
UsersWithEmail(email) == {i \in UserIds : users[i].email = email}
\* SQLAlchemy turns `User.cpf == None` into IS NULL
UsersWithCpf(cpf) == {i \in UserIds : users[i].cpf = cpf}

(***************************************************************************)
(* Responses                                                               *)
(***************************************************************************)
NoResp == [op |-> "none", status |-> 0, actor |-> None, req |-> <<>>, out |-> <<>>]
Resp(op, status, actor, req, out) ==
    [op |-> op, status |-> status, actor |-> actor, req |-> req, out |-> out]

(***************************************************************************)
(* Seeded database, a reduced utils/seed.py: the admin, two assistants and *)
(* one org; beneficiaries are created by the requests.                     *)
(***************************************************************************)
EMAIL_ADMIN == <<"a", "d", "m">>
EMAIL_AS1 == <<"a", "s", "1">>
EMAIL_AS2 == <<"a", "s", "2">>

SeedUser(email, role, org_id) ==
    [email |-> email, name |-> None, cpf |-> None,
     password_hash |-> hash_password(PW_GOOD), role |-> role, is_active |-> TRUE,
     assistente_id |-> None, org_id |-> org_id]

SeedUsers ==
    << SeedUser(EMAIL_ADMIN, ADMIN, None),
       SeedUser(EMAIL_AS1, ASSISTENTE, Some(1)),
       SeedUser(EMAIL_AS2, ASSISTENTE, Some(1)) >>

\* secrets.token_urlsafe(6): 8 characters out of A-Z a-z 0-9 - _ ; the
\* first two tokens differ in letter case only
URLSAFE_1 == <<"a", "b", "c", "d", "e", "0", "-", "_">>
URLSAFE_1_MIXED == <<"A", "b", "C", "d", "E", "0", "-", "_">>
URLSAFE_2 == <<"b", "a", "1", "2", "3", "4", "5", "6">>
URLSAFE_3 == <<"E", "e", "9", "8", "7", "6", "5", "4">>
token_urlsafe == {URLSAFE_1, URLSAFE_1_MIXED, URLSAFE_2, URLSAFE_3}

\* A faulty generate_invite_code, for testing the properties that rest on
\* it: the token is returned in the letter case it was drawn in.
generate_invite_code_Raw == token_urlsafe

\* security.generate_invite_code: the codes one call can return
generate_invite_code == {SubSeq(upper(t), 1, 8) : t \in token_urlsafe}

NAME_SEED_ORG == <<"i", "i", "s">>
EMAIL_SEED_ORG == <<"i", "i", "s", "@", "o">>

\* seed_orgs: approved and verified at seeding time, approved by nobody;
\* the code is one of those generate_invite_code can return
SeedOrgs ==
    << [name |-> NAME_SEED_ORG, email |-> EMAIL_SEED_ORG,
        invite_code |-> upper(URLSAFE_3),
        verified |-> TRUE, approved |-> TRUE, approved_by_id |-> None,
        verified_at |-> Some(0), approved_at |-> Some(0)] >>

Init ==
    /\ users = SeedUsers
    /\ tokens = <<>>
    /\ now = 0
    /\ orgs = SeedOrgs
    /\ donations = <<>>
    /\ ledger = <<>>
    /\ articles = <<>>
    /\ chats = <<>>
    /\ inflight = <<>>
    /\ resp = NoResp

(***************************************************************************)
(* The clock.  Requests arrive at a bounded set of instants: the first     *)
(* minutes, and the minutes around the expiry of the refresh tokens issued *)
(* in those first minutes.                                                 *)
(***************************************************************************)
Instants ==
    (0..MaxInstant) \cup {RefreshTTL + t : t \in 0..(MaxInstant + 1)}

Tick ==
    /\ \E t \in Instants : t > now /\ now' = t
    /\ resp' = NoResp
    /\ UNCHANGED <<users, tokens, orgs, donations, ledger, articles, chats, inflight>>

(***************************************************************************)
(* dependencies.py                                                         *)
(***************************************************************************)
\* The access tokens a client can hold: one issued to an existing user just
\* now, or at minute 0 (expired once the clock has passed its lifetime).
AccessTokens ==
    {create_access_token(u, t) : u \in UserIds, t \in {0, now}}

\* get_current_user: [status, user]; status 200 when the bearer token is a
\* valid access token of an existing active user.
get_current_user(cred) ==
    IF IsNone(cred) THEN [status |-> 403, user |-> None]
    ELSE LET payload == decode_token(Val(cred), now) IN
         IF IsNone(payload) \/ Val(payload).type # "access"
         THEN [status |-> 401, user |-> None]
         ELSE IF Val(payload).sub \notin UserIds
         THEN [status |-> 401, user |-> None]
         ELSE IF ~users[Val(payload).sub].is_active
         THEN [status |-> 403, user |-> None]
         ELSE [status |-> 200, user |-> Some(Val(payload).sub)]

(***************************************************************************)
(* The users table: UNIQUE(email), UNIQUE(cpf).  A commit that breaks a    *)
(* constraint raises IntegrityError, which no handler catches: the request *)
(* ends in 500 and nothing is stored.                                      *)
(***************************************************************************)
UsersConstraintsHold(after) ==
    \A i, j \in DOMAIN after :
        i # j => /\ after[i].email # after[j].email
                 /\ (IsSome(after[i].cpf) => after[i].cpf # after[j].cpf)

CommitUsers(after, ok_status, out) ==
    IF UsersConstraintsHold(after)
    THEN [status |-> ok_status, users |-> after, out |-> out]
    ELSE [status |-> 500, users |-> users, out |-> None]

\* Python truthiness of an optional string
Truthy(o) == IsSome(o) /\ Val(o) # <<>>

(***************************************************************************)
(* dependencies.py: require_assistente_or_admin                            *)
(***************************************************************************)
require_assistente(cred) ==
    LET auth == get_current_user(cred) IN
    IF auth.status # 200 THEN auth
    ELSE IF users[Val(auth.user)].role \notin {ASSISTENTE, ADMIN}
    THEN [status |-> 403, user |-> None]
    ELSE auth

require_assistente_or_admin(cred) == require_assistente(cred)

(***************************************************************************)
(* routers/beneficiarios.py                                                *)
(***************************************************************************)
\* A faulty _ensure_assistente, for testing the properties that rest on it:
\* the role of the user is not looked at.
ensure_assistente_AnyRole(assistente_id) ==
    /\ assistente_id \in UserIds
    /\ users[assistente_id].is_active

\* _ensure_assistente: TRUE when the id names an active user of role
\* assistente (the handler answers 404 otherwise)
ensure_assistente(assistente_id) ==
    /\ assistente_id \in UserIds
    /\ users[assistente_id].role = ASSISTENTE
    /\ users[assistente_id].is_active

\* _ensure_org
ensure_org(org_id) == org_id \in DOMAIN orgs

Beneficiarios == {i \in UserIds : users[i].role = BENEFICIARIO}

Failed(code) == [status |-> code, users |-> users, out |-> None]

\* s LIKE '%sub%' (the search strings of the model hold no wildcard)
Contains(s, sub) ==
    \E i \in 0..(Len(s) - Len(sub)) : SubSeq(s, i + 1, i + Len(sub)) = sub

\* NULL LIKE ... is not true
OptContains(o, sub) == IsSome(o) /\ Contains(Val(o), sub)

RECURSIVE SortDesc(_)
SortDesc(S) ==
    IF S = {} THEN <<>>
    ELSE LET m == CHOOSE x \in S : \A y \in S : y <= x
         IN <<m>> \o SortDesc(S \ {m})

\* A faulty ListScope, for testing the properties that rest on it:
\* the assistente_id parameter overrides the
\* assistant's own scope
ListScope_FilterParamWins(actor, assistente_id) ==
    IF IsSome(assistente_id)
    THEN {i \in Beneficiarios : users[i].assistente_id = assistente_id}
    ELSE IF users[actor].role = ASSISTENTE
    THEN {i \in Beneficiarios : users[i].assistente_id = Some(actor)}
    ELSE Beneficiarios

\* Lines 53-56: the assistant's own beneficiaries; for an admin the optional
\* assistente_id filter
ListScope(actor, assistente_id) ==
    IF users[actor].role = ASSISTENTE
    THEN {i \in Beneficiarios : users[i].assistente_id = Some(actor)}
    ELSE IF IsSome(assistente_id)
    THEN {i \in Beneficiarios : users[i].assistente_id = assistente_id}
    ELSE Beneficiarios

\* Lines 58-67
SearchMatches(i, search) ==
    \/ OptContains(lower_opt(users[i].name), lower(search))
    \/ Contains(lower(users[i].email), lower(search))
    \/ OptContains(users[i].cpf, search)

\* Rows come newest first; ids grow with creation time.
list_beneficiarios(cred, page, page_size, search, assistente_id) ==
    LET auth == require_assistente_or_admin(cred) IN
    IF auth.status # 200 THEN Failed(auth.status)
    ELSE
    LET scope == ListScope(Val(auth.user), assistente_id)
        found == IF Truthy(search)
                 THEN {i \in scope : SearchMatches(i, Val(search))}
                 ELSE scope
        rows == SortDesc(found)
        offset == (page - 1) * page_size
        last == IF offset + page_size < Len(rows) THEN offset + page_size ELSE Len(rows)
    IN [status |-> 200, users |-> users,
        out |-> [users |-> SubSeq(rows, offset + 1, last), total |-> Cardinality(found),
                 page |-> page, page_size |-> page_size]]

\* A faulty CreateLinkCheck, for testing the properties that rest on it:
\* an assistant may name any assistant
CreateLinkCheck_NoScope(actor, assistente_id) ==
    IF users[actor].role = ASSISTENTE THEN 0
    ELSE IF ensure_assistente(assistente_id) THEN 0 ELSE 404

\* Lines 95-104 of create_beneficiario: 0 when the link is allowed, else the
\* status of the rejection
CreateLinkCheck(actor, assistente_id) ==
    IF users[actor].role = ASSISTENTE
    THEN IF assistente_id # actor THEN 403 ELSE 0
    ELSE IF ensure_assistente(assistente_id) THEN 0 ELSE 404

create_beneficiario(cred, data) ==
    LET auth == require_assistente_or_admin(cred) IN
    IF auth.status # 200 THEN Failed(auth.status)
    ELSE
    LET actor == Val(auth.user)
        link == CreateLinkCheck(actor, data.assistente_id)
        beneficiario ==
            [email |-> data.email, name |-> data.name, cpf |-> data.cpf,
             password_hash |-> hash_password(data.password), role |-> BENEFICIARIO,
             is_active |-> TRUE,
             assistente_id |-> IF users[actor].role = ASSISTENTE THEN Some(actor)
                               ELSE Some(data.assistente_id),
             org_id |-> data.org_id]
    IN  IF UsersWithEmail(data.email) # {} THEN Failed(400)
        ELSE IF Truthy(data.cpf) /\ UsersWithCpf(data.cpf) # {} THEN Failed(400)
        ELSE IF link # 0 THEN Failed(link)
        ELSE IF IsSome(data.org_id) /\ ~ensure_org(Val(data.org_id)) THEN Failed(404)
        ELSE CommitUsers(Append(users, beneficiario), 201, Some(Len(users) + 1))

\* BeneficiarioUpdate.validate_cpf: None stays None, anything else is reduced
\* to its digits and must have 11 of them (422 otherwise)
validate_cpf_ok(cpf) == IsNone(cpf) \/ Len(only_digits(Val(cpf))) = CPF_DIGITS
validate_cpf(cpf) == IF IsNone(cpf) THEN None ELSE Some(only_digits(Val(cpf)))

\* A faulty UpdateLinkCheck, for testing the properties that rest on it:
\* an assistant may unlink
UpdateLinkCheck_UnlinkByAnyone(actor, new_assistente_id) ==
    IF users[actor].role = ASSISTENTE /\ IsSome(new_assistente_id)
       /\ new_assistente_id # Some(actor) THEN 403
    ELSE IF IsSome(new_assistente_id)
    THEN IF ensure_assistente(Val(new_assistente_id)) THEN 0 ELSE 404
    ELSE 0

\* Lines 165-178 of update_beneficiario: 0 when the new link is allowed
UpdateLinkCheck(actor, new_assistente_id) ==
    IF users[actor].role = ASSISTENTE /\ new_assistente_id # Some(actor) THEN 403
    ELSE IF IsSome(new_assistente_id)
    THEN IF ensure_assistente(Val(new_assistente_id)) THEN 0 ELSE 404
    ELSE IF users[actor].role # ADMIN THEN 403
    ELSE 0

\* model_dump(exclude_unset=True): `data` maps the fields the request carries
\* to their values; email, cpf, assistente_id and org_id are optional values
\* (an explicit null is None), name is optional, is_active is a boolean or None.
Has(data, f) == f \in DOMAIN data

\* Line 149 compares the new email with the stored one; the stored email is
\* never NULL.
EmailTaken(data, b) ==
    /\ Has(data, "email")
    /\ data.email # Some(users[b].email)
    /\ IsSome(data.email)
    /\ UsersWithEmail(Val(data.email)) # {}

CpfTaken(data, b) ==
    /\ Has(data, "cpf")
    /\ validate_cpf(data.cpf) # users[b].cpf
    /\ UsersWithCpf(validate_cpf(data.cpf)) # {}

\* email and is_active are NOT NULL columns: an explicit null for one of them
\* passes every check of the handler and fails at the commit.
NullViolation(data) ==
    \/ Has(data, "email") /\ IsNone(data.email)
    \/ Has(data, "is_active") /\ IsNone(data.is_active)

\* Lines 183-184: setattr for every field of update_data
ApplyUpdate(u, data) ==
    [f \in DOMAIN u |->
        IF ~Has(data, f) THEN u[f]
        ELSE IF f = "email" THEN Val(data.email)
        ELSE IF f = "cpf" THEN validate_cpf(data.cpf)
        ELSE IF f = "is_active" THEN Val(data.is_active)
        ELSE data[f]]

update_beneficiario(cred, beneficiario_id, data) ==
    LET auth == require_assistente_or_admin(cred) IN
    IF auth.status # 200 THEN Failed(auth.status)
    ELSE IF Has(data, "cpf") /\ ~validate_cpf_ok(data.cpf) THEN Failed(422)
    ELSE
    LET actor == Val(auth.user)
        b == beneficiario_id
    IN  IF b \notin Beneficiarios THEN Failed(404)
        ELSE IF users[actor].role = ASSISTENTE /\ users[b].assistente_id # Some(actor)
        THEN Failed(403)
        ELSE IF EmailTaken(data, b) THEN Failed(400)
        ELSE IF CpfTaken(data, b) THEN Failed(400)
        ELSE IF Has(data, "assistente_id") /\ UpdateLinkCheck(actor, data.assistente_id) # 0
        THEN Failed(UpdateLinkCheck(actor, data.assistente_id))
        ELSE IF Has(data, "org_id") /\ IsSome(data.org_id) /\ ~ensure_org(Val(data.org_id))
        THEN Failed(404)
        ELSE IF NullViolation(data) THEN Failed(500)
        ELSE CommitUsers([users EXCEPT ![b] = ApplyUpdate(users[b], data)], 200, Some(b))

\* A faulty VincularCheck, for testing the properties that rest on it:
\* the beneficiary's current link is not
\* looked at
VincularCheck_AnyBeneficiary(actor, b, assistente_id) ==
    IF users[actor].role = ASSISTENTE /\ assistente_id # actor THEN 403 ELSE 0

\* Lines 205-215 of vincular_beneficiario: 0 when the actor may link b
VincularCheck(actor, b, assistente_id) ==
    IF users[actor].role = ASSISTENTE
    THEN IF assistente_id # actor THEN 403
         ELSE IF users[b].assistente_id \notin {None, Some(actor)} THEN 403
         ELSE 0
    ELSE 0

vincular_beneficiario(cred, payload) ==
    LET auth == require_assistente_or_admin(cred) IN
    IF auth.status # 200 THEN Failed(auth.status)
    ELSE
    LET actor == Val(auth.user)
        b == payload.beneficiario_id
    IN  IF b \notin Beneficiarios THEN Failed(404)
        ELSE IF VincularCheck(actor, b, payload.assistente_id) # 0
        THEN Failed(VincularCheck(actor, b, payload.assistente_id))
        ELSE IF ~ensure_assistente(payload.assistente_id) THEN Failed(404)
        ELSE CommitUsers([users EXCEPT ![b].assistente_id = Some(payload.assistente_id)],
                         200, Some(b))

(***************************************************************************)
(* routers/auth.py                                                         *)
(* A handler is an operator from the request to its result: the status,    *)
(* the tables as the handler leaves them, and the response body.           *)
(***************************************************************************)
TokenStrings == {tokens[i].token : i \in DOMAIN tokens}

AuthResult(code, usersAfter, tokensAfter, out) ==
    [status |-> code, users |-> usersAfter, tokens |-> tokensAfter, out |-> out]

\* Lines 142-146 and 182-186
NewRefreshRow(user_id, tok, t) ==
    [user_id |-> user_id, token |-> tok, expires_at |-> t + RefreshTTL,
     is_revoked |-> FALSE, revoked_at |-> None]

\* Lines 137-155 and 177-195: issue both tokens and store the refresh token.
\* The token column is unique: a token string already stored makes the commit
\* raise IntegrityError, which no handler catches (500), and no row is stored.
\* `usersAfter` is the users table as committed before this point.
IssueTokens(ok_status, user_id, usersAfter) ==
    LET access == create_access_token(user_id, now)
        refresh == create_refresh_token(user_id, now)
    IN  IF refresh \in TokenStrings
        THEN AuthResult(500, usersAfter, tokens, None)
        ELSE AuthResult(ok_status, usersAfter,
                        Append(tokens, NewRefreshRow(user_id, refresh, now)),
                        Some([access_token |-> access, refresh_token |-> refresh]))

\* Lines 59-67: an empty or missing cpf stays NULL, any other is reduced to
\* its digits
normalize_cpf(cpf) == IF Truthy(cpf) THEN Some(only_digits(Val(cpf))) ELSE None

\* Lines 69-84: the email, and the cpf when given, must be unused
RegisterConflict(email, normalized_cpf) ==
    \/ UsersWithEmail(email) # {}
    \/ IsSome(normalized_cpf) /\ UsersWithCpf(normalized_cpf) # {}

register(email, password, name, cpf) ==
    LET normalized_cpf == normalize_cpf(cpf)
        user == [email |-> email, name |-> Some(name), cpf |-> normalized_cpf,
                 password_hash |-> hash_password(password), role |-> BENEFICIARIO,
                 is_active |-> TRUE, assistente_id |-> None, org_id |-> None]
        Rejected(code) == AuthResult(code, users, tokens, None)
    IN  IF Len(password) < MIN_PASSWORD_LEN THEN Rejected(400)
        ELSE IF IsSome(normalized_cpf) /\ Len(Val(normalized_cpf)) # CPF_DIGITS
        THEN Rejected(400)
        ELSE IF RegisterConflict(email, normalized_cpf) THEN Rejected(400)
        ELSE IF ~UsersConstraintsHold(Append(users, user)) THEN Rejected(500)
        ELSE IssueTokens(201, Len(users) + 1, Append(users, user))

login(email, password) ==
    LET user == First(UsersWithEmail(email))
        Rejected(code) == AuthResult(code, users, tokens, None)
    IN  IF IsNone(user) \/ ~verify_password(password, users[Val(user)].password_hash)
        THEN Rejected(401)
        ELSE IF ~users[Val(user)].is_active THEN Rejected(403)
        ELSE IssueTokens(200, Val(user), users)

\* A faulty ActiveRefreshRow, for testing the properties that rest on it:
\* revoked rows count too
ActiveRefreshRow_IgnoresRevocation(tok) ==
    First({i \in DOMAIN tokens : tokens[i].token = tok})

\* Lines 212-215: the stored row of this token string that is not revoked
ActiveRefreshRow(tok) ==
    First({i \in DOMAIN tokens : tokens[i].token = tok /\ ~tokens[i].is_revoked})

refresh_access_token(tok) ==
    LET payload == decode_token(tok, now)
        row == ActiveRefreshRow(tok)
        Rejected(code) == AuthResult(code, users, tokens, None)
    IN  IF IsNone(payload) \/ Val(payload).type # "refresh" THEN Rejected(401)
        ELSE IF IsNone(row) THEN Rejected(401)
        ELSE IF tokens[Val(row)].expires_at < now THEN Rejected(401)
        ELSE AuthResult(200, users, tokens,
                        Some([access_token |-> create_access_token(Val(payload).sub, now)]))

\* Lines 402-405: the row of this token string that belongs to the actor
LogoutRow(tok, user_id) ==
    First({i \in DOMAIN tokens : tokens[i].token = tok /\ tokens[i].user_id = user_id})

logout(cred, tok) ==
    LET auth == get_current_user(cred) IN
    IF auth.status # 200 THEN AuthResult(auth.status, users, tokens, None)
    ELSE LET row == LogoutRow(tok, Val(auth.user)) IN
         AuthResult(204, users,
                    IF IsNone(row) THEN tokens
                    ELSE [tokens EXCEPT ![Val(row)].is_revoked = TRUE,
                                        ![Val(row)].revoked_at = Some(now)],
                    None)

\* PUT /auth/me.  `image` is the outcome of the optional profile image part:
\* "none", "ok", "not_image" (400) or "storage_down" (503, 502); either
\* failure ends the request before the commit.
update_me(cred, cpf, image) ==
    LET auth == get_current_user(cred) IN
    IF auth.status # 200 THEN Failed(auth.status)
    ELSE
    LET me == Val(auth.user)
        normalized_cpf == IF IsSome(cpf) THEN Some(only_digits(Val(cpf))) ELSE None
    IN  IF IsSome(cpf) /\ Len(Val(normalized_cpf)) # CPF_DIGITS THEN Failed(400)
        ELSE IF IsSome(cpf) /\ (UsersWithCpf(normalized_cpf) \ {me}) # {} THEN Failed(400)
        ELSE IF image = "not_image" THEN Failed(400)
        ELSE IF image = "storage_down" THEN Failed(503)
        ELSE CommitUsers(IF IsSome(cpf) THEN [users EXCEPT ![me].cpf = normalized_cpf]
                         ELSE users, 200, Some(me))

(***************************************************************************)
(* Actions of the auth endpoints                                           *)
(***************************************************************************)
ApplyAuth(op, r, actor, req) ==
    /\ users' = r.users
    /\ tokens' = r.tokens
    /\ resp' = Resp(op, r.status, actor, req, r.out)
    /\ UNCHANGED <<now, orgs, donations, ledger, articles, chats, inflight>>

Register(email, password, name, cpf) ==
    /\ Len(users) < MaxUsers
    /\ Len(tokens) < MaxTokens
    /\ ApplyAuth("register", register(email, password, name, cpf), None,
                 [email |-> email, cpf |-> cpf])

Login(email, password) ==
    /\ Len(tokens) < MaxTokens
    /\ ApplyAuth("login", login(email, password), None, [email |-> email])

RefreshAccessToken(tok) ==
    ApplyAuth("refresh", refresh_access_token(tok), None, [refresh_token |-> tok])

Logout(cred, tok) ==
    ApplyAuth("logout", logout(cred, tok), get_current_user(cred).user,
              [refresh_token |-> tok])

\* What a client can send as a refresh token: a stored token string, the same
\* claims signed with another key, or an access token.
PresentableTokens ==
    TokenStrings
    \cup {[t EXCEPT !.sig = FORGED] : t \in TokenStrings}
    \cup AccessTokens

\* What a client can send as bearer credentials: nothing, an access token, or
\* a refresh token.
Bearers == {None} \cup {Some(t) : t \in AccessTokens \cup TokenStrings}

EMAIL_NEW == <<"b", "@", "x">>
NAME_NEW == <<"B", "e", "n">>
AuthEmails == {EMAIL_AS1, EMAIL_NEW}

AuthRegister ==
    \E email \in AuthEmails, password \in {PW_SHORT, PW_GOOD} :
        Register(email, password, NAME_NEW, None)

AuthLogin ==
    \E email \in AuthEmails, password \in {PW_GOOD, PW_OTHER} : Login(email, password)

AuthRefresh == \E tok \in PresentableTokens : RefreshAccessToken(tok)

AuthLogout ==
    \E cred \in Bearers, tok \in TokenStrings \cup {jwt_encode(0, 0, "refresh")} :
        Logout(cred, tok)

NextAuth == AuthRegister \/ AuthLogin \/ AuthRefresh \/ AuthLogout \/ Tick

SpecAuth == Init /\ [][NextAuth]_vars

\* The stored rows of a token string
RowsOf(tok) == {i \in DOMAIN tokens : tokens[i].token = tok}

(***************************************************************************)
(* C1: POST /auth/refresh answers 200 with an access token only for a      *)
(* token that decodes as a valid refresh token and has a stored row that   *)
(* is not revoked and not expired; a token whose row is revoked or expired *)
(* gets 401 and no access token.                                           *)
(***************************************************************************)
C1_RefreshOnlyForLiveToken ==
    resp.op = "refresh" =>
        LET tok == resp.req.refresh_token IN
        /\ resp.status \in {200, 401}
        /\ resp.status = 200 =>
             /\ IsSome(decode_token(tok, now))
             /\ tok.type = "refresh"
             /\ \E i \in RowsOf(tok) : ~tokens[i].is_revoked /\ ~(tokens[i].expires_at < now)
             /\ IsSome(resp.out) /\ Val(resp.out).access_token.type = "access"
        /\ (\E i \in RowsOf(tok) : tokens[i].is_revoked \/ tokens[i].expires_at < now) =>
             /\ resp.status = 401
             /\ IsNone(resp.out)

C1_Witness ==
    /\ resp.op = "refresh"
    /\ resp.status = 401
    /\ \E i \in RowsOf(resp.req.refresh_token) :
          tokens[i].is_revoked /\ ~(tokens[i].expires_at < now)
    /\ IsSome(decode_token(resp.req.refresh_token, now))

(***************************************************************************)
(* Actions of the beneficiary endpoints                                    *)
(***************************************************************************)
ApplyUsers(op, r, cred) ==
    /\ users' = r.users
    /\ resp' = Resp(op, r.status, get_current_user(cred).user, <<>>, <<>>)
    /\ UNCHANGED <<tokens, now, orgs, donations, ledger, articles, chats, inflight>>

ListBeneficiarios(cred, page, page_size, search, assistente_id) ==
    ApplyUsers("list_beneficiarios",
               list_beneficiarios(cred, page, page_size, search, assistente_id), cred)

CreateBeneficiario(cred, data) ==
    /\ Len(users) < MaxUsers
    /\ ApplyUsers("create_beneficiario", create_beneficiario(cred, data), cred)

UpdateBeneficiario(cred, beneficiario_id, data) ==
    ApplyUsers("update_beneficiario", update_beneficiario(cred, beneficiario_id, data), cred)

VincularBeneficiario(cred, payload) ==
    ApplyUsers("vincular_beneficiario", vincular_beneficiario(cred, payload), cred)

UpdateMe(cred, cpf, image) == ApplyUsers("update_me", update_me(cred, cpf, image), cred)

(***************************************************************************)
(* Requests of the beneficiary specification                               *)
(***************************************************************************)
\* A caller sends no credentials or the access token it was just issued.
Callers == {None} \cup {Some(create_access_token(u, now)) : u \in UserIds}

\* Ids a request can name as the assistant: the seeded users (the admin and
\* the two assistants), a beneficiary, and an id that no user has
LinkIds == (1..(Len(SeedUsers) + 1)) \cup {MaxUsers + 1}
OptLinkIds == {None} \cup {Some(i) : i \in LinkIds}
\* Ids a request can name as the beneficiary: a seeded user, every id a
\* created user may have, and an id that no user has
TargetIds == {1} \cup ((Len(SeedUsers) + 1)..(MaxUsers + 1))
MissingOrg == Some(Len(orgs) + 1)

EMAIL_NEW2 == <<"c", "@", "x">>
CPF_SHORT == <<"1", "2", "3">>

CreateInputs ==
    [email : {EMAIL_NEW, EMAIL_NEW2, EMAIL_AS1}, name : {None}, password : {PW_GOOD},
     cpf : {None}, assistente_id : LinkIds, org_id : {None, MissingOrg}]

UpdateInputs ==
    {[assistente_id |-> a] : a \in OptLinkIds}
    \cup {[email |-> e] : e \in {Some(EMAIL_NEW2), Some(EMAIL_AS1), None}}
    \cup {[email |-> Some(EMAIL_AS1), assistente_id |-> a] : a \in {None, Some(2), Some(3)}}
    \cup {[name |-> Some(NAME_NEW)], [org_id |-> MissingOrg], [org_id |-> None],
          [is_active |-> None], [cpf |-> Some(CPF_SHORT)]}

VincularInputs == [beneficiario_id : TargetIds, assistente_id : LinkIds]

Pages == {1, 2}
PageSizes == {1, 2}
Searches == {None, Some(<<"B">>)}

BenefRegister == Register(EMAIL_NEW, PW_GOOD, NAME_NEW, None)

BenefList ==
    \E cred \in Callers, page \in Pages, page_size \in PageSizes,
       search \in Searches, assistente_id \in OptLinkIds :
        ListBeneficiarios(cred, page, page_size, search, assistente_id)

BenefCreate == \E cred \in Callers, data \in CreateInputs : CreateBeneficiario(cred, data)

BenefUpdate ==
    \E cred \in Callers, id \in TargetIds, data \in UpdateInputs :
        UpdateBeneficiario(cred, id, data)

BenefVincular ==
    \E cred \in Callers, payload \in VincularInputs : VincularBeneficiario(cred, payload)

NextBenef == BenefRegister \/ BenefList \/ BenefCreate \/ BenefUpdate \/ BenefVincular

SpecBenef == Init /\ [][NextBenef]_vars

\* The caller behind the credentials, when they are those of an active user
Actor(cred) == get_current_user(cred).user
IsAssistente(cred) == IsSome(Actor(cred)) /\ users[Val(Actor(cred))].role = ASSISTENTE
IsAdmin(cred) == IsSome(Actor(cred)) /\ users[Val(Actor(cred))].role = ADMIN

(***************************************************************************)
(* C2: for every reachable database and every query (page, page size,      *)
(* search string, assistente_id filter), an assistant's listing holds only *)
(* beneficiaries linked to that assistant, and total counts the linked     *)
(* beneficiaries the search selects (all of them without a search); an     *)
(* admin without filter and search gets total = all beneficiaries, and all *)
(* of them on a first page that is large enough.                           *)
(***************************************************************************)
C2_ListScopedToAssistant ==
    \A cred \in Callers, page \in Pages, page_size \in PageSizes,
       search \in Searches, assistente_id \in OptLinkIds :
        LET r == list_beneficiarios(cred, page, page_size, search, assistente_id)
            mine == {i \in UserIds : /\ users[i].role = BENEFICIARIO
                                     /\ users[i].assistente_id = Actor(cred)}
            selected == IF Truthy(search)
                        THEN {i \in mine : SearchMatches(i, Val(search))} ELSE mine
        IN  /\ IsAssistente(cred) =>
                 /\ r.status = 200
                 /\ Range(r.out.users) \subseteq selected
                 /\ Cardinality(Range(r.out.users)) = Len(r.out.users)
                 /\ r.out.total = Cardinality(selected)
                 /\ (page = 1 /\ page_size >= r.out.total) => Range(r.out.users) = selected
            /\ (IsAdmin(cred) /\ IsNone(assistente_id) /\ IsNone(search)) =>
                 /\ r.status = 200
                 /\ r.out.total = Cardinality(Beneficiarios)
                 /\ Range(r.out.users) \subseteq Beneficiarios
                 /\ (page = 1 /\ page_size >= r.out.total) =>
                        Range(r.out.users) = Beneficiarios

\* An assistant has listed while another assistant has a beneficiary too, and
\* asking for that assistant's beneficiaries returned the caller's own.
C2_Witness ==
    /\ resp.op = "list_beneficiarios" /\ resp.status = 200
    /\ IsSome(resp.actor) /\ users[Val(resp.actor)].role = ASSISTENTE
    /\ \E i, j \in Beneficiarios :
          /\ users[i].assistente_id = resp.actor
          /\ IsSome(users[j].assistente_id) /\ users[j].assistente_id # resp.actor
          /\ list_beneficiarios(Some(create_access_token(Val(resp.actor), now)), 1, 2,
                                None, users[j].assistente_id).out.users = <<i>>

(***************************************************************************)
(* C3 as stated: create_beneficiario by an assistant naming another        *)
(* assistant_id gets 403 and creates nothing; a creation by an assistant   *)
(* links the new beneficiary (role beneficiario) to the actor; for an      *)
(* admin a target that is no active assistant gets 404 and creates nothing.*)
(* Fails: the email check runs first, so such a request with an email      *)
(* already in use gets 400.                                                *)
(***************************************************************************)
CreateTaken(data) ==
    \/ UsersWithEmail(data.email) # {}
    \/ Truthy(data.cpf) /\ UsersWithCpf(data.cpf) # {}

CreatedRow(r) == r.users[Len(users) + 1]

C3_Original ==
    \A cred \in Callers, data \in CreateInputs :
        LET r == create_beneficiario(cred, data) IN
        /\ (IsAssistente(cred) /\ data.assistente_id # Val(Actor(cred))) =>
              r.status = 403 /\ r.users = users
        /\ (IsAdmin(cred) /\ ~ensure_assistente(data.assistente_id)) =>
              r.status = 404 /\ r.users = users

(***************************************************************************)
(* C3 amended: such a request is always rejected and creates nothing; the  *)
(* status is 403 (assistant naming another id) or 404 (admin naming no     *)
(* active assistant) unless the email or CPF is already in use, which is   *)
(* answered first with 400.  A creation by an assistant links the new      *)
(* beneficiary, of role beneficiario, to the actor; one by an admin links  *)
(* it to the named active assistant.                                       *)
(***************************************************************************)
C3_CreateScoped ==
    \A cred \in Callers, data \in CreateInputs :
        LET r == create_beneficiario(cred, data) IN
        /\ (IsAssistente(cred) /\ data.assistente_id # Val(Actor(cred))) =>
              /\ r.status = IF CreateTaken(data) THEN 400 ELSE 403
              /\ r.users = users
        /\ (IsAdmin(cred) /\ ~ensure_assistente(data.assistente_id)) =>
              /\ r.status = IF CreateTaken(data) THEN 400 ELSE 404
              /\ r.users = users
        /\ r.status # 201 => r.users = users
        /\ r.status = 201 =>
              /\ r.users = Append(users, CreatedRow(r))
              /\ CreatedRow(r).role = BENEFICIARIO
              /\ CreatedRow(r).email = data.email
              /\ IsAssistente(cred) => CreatedRow(r).assistente_id = Actor(cred)
              /\ IsAdmin(cred) =>
                    /\ CreatedRow(r).assistente_id = Some(data.assistente_id)
                    /\ ensure_assistente(data.assistente_id)

\* An assistant was just refused (403) while it has already created a
\* beneficiary of its own.
C3_Witness ==
    /\ resp.op = "create_beneficiario" /\ resp.status = 403
    /\ IsSome(resp.actor) /\ users[Val(resp.actor)].role = ASSISTENTE
    /\ \E i \in Beneficiarios : users[i].assistente_id = resp.actor

(***************************************************************************)
(* C4: vincular_beneficiario by an assistant links an existing beneficiary *)
(* exactly when the requested assistente_id is the actor's id and the      *)
(* beneficiary is unlinked or already linked to the actor; otherwise 403   *)
(* and the users table is unchanged.  An admin links any beneficiary to    *)
(* any existing active assistant.                                          *)
(***************************************************************************)
C4_VincularScoped ==
    \A cred \in Callers, payload \in VincularInputs :
        LET r == vincular_beneficiario(cred, payload)
            b == payload.beneficiario_id
            a == payload.assistente_id
        IN  b \in Beneficiarios =>
            /\ IsAssistente(cred) =>
                  IF a = Val(Actor(cred)) /\ users[b].assistente_id \in {None, Actor(cred)}
                  THEN /\ r.status = 200
                       /\ r.users = [users EXCEPT ![b].assistente_id = Actor(cred)]
                  ELSE r.status = 403 /\ r.users = users
            /\ IsAdmin(cred) =>
                  IF ensure_assistente(a)
                  THEN /\ r.status = 200
                       /\ r.users = [users EXCEPT ![b].assistente_id = Some(a)]
                  ELSE r.status = 404 /\ r.users = users
            /\ (~IsAssistente(cred) /\ ~IsAdmin(cred)) => r.users = users

\* An assistant was just refused (403) while a beneficiary is linked to
\* another assistant and one is linked to the actor.
C4_Witness ==
    /\ resp.op = "vincular_beneficiario" /\ resp.status = 403
    /\ IsSome(resp.actor) /\ users[Val(resp.actor)].role = ASSISTENTE
    /\ \E i, j \in Beneficiarios :
          /\ users[i].assistente_id = resp.actor
          /\ IsSome(users[j].assistente_id) /\ users[j].assistente_id # resp.actor

(***************************************************************************)
(* C5 as stated: through update_beneficiario only an admin sets            *)
(* assistente_id to null, and an assistant's attempt to update another     *)
(* assistant's beneficiary, or to set assistente_id to anything but its    *)
(* own id, gets 403 and changes nothing.  Fails: on the assistant's own    *)
(* beneficiary the email and CPF checks run first and answer 400.          *)
(***************************************************************************)
ValidUpdate(data) == Has(data, "cpf") => validate_cpf_ok(data.cpf)

NotMine(cred, b) == IsAssistente(cred) /\ users[b].assistente_id # Actor(cred)

ForeignLink(cred, data) ==
    IsAssistente(cred) /\ Has(data, "assistente_id") /\ data.assistente_id # Actor(cred)

C5_Original ==
    \A cred \in Callers, b \in TargetIds, data \in UpdateInputs :
        (b \in Beneficiarios /\ ValidUpdate(data)) =>
            LET r == update_beneficiario(cred, b, data) IN
            /\ (r.users[b].assistente_id = None /\ users[b].assistente_id # None) =>
                  IsAdmin(cred)
            /\ (NotMine(cred, b) \/ ForeignLink(cred, data)) =>
                  r.status = 403 /\ r.users = users

(***************************************************************************)
(* C5 amended: only an admin sets assistente_id to null; an assistant's    *)
(* update of a beneficiary not linked to it gets 403; an assistant's       *)
(* attempt to set assistente_id to anything but its own id on its own      *)
(* beneficiary gets 403, or 400 when the request also carries an email or  *)
(* CPF that another user has; every such attempt changes nothing.          *)
(***************************************************************************)
C5_UpdateScoped ==
    \A cred \in Callers, b \in TargetIds, data \in UpdateInputs :
        (b \in Beneficiarios /\ ValidUpdate(data)) =>
            LET r == update_beneficiario(cred, b, data) IN
            /\ (r.users[b].assistente_id = None /\ users[b].assistente_id # None) =>
                  IsAdmin(cred)
            /\ NotMine(cred, b) => r.status = 403 /\ r.users = users
            /\ (ForeignLink(cred, data) /\ ~NotMine(cred, b)) =>
                  /\ r.status = IF EmailTaken(data, b) \/ CpfTaken(data, b)
                                THEN 400 ELSE 403
                  /\ r.users = users
            /\ r.status # 200 => r.users = users
            /\ \A i \in UserIds : i # b => r.users[i] = users[i]

\* An assistant was just refused (403) on a beneficiary that is linked to it
\* (so the refusal is about the new link), and an admin unlinked another.
C5_Witness ==
    /\ resp.op = "update_beneficiario" /\ resp.status = 403
    /\ IsSome(resp.actor) /\ users[Val(resp.actor)].role = ASSISTENTE
    /\ \A i \in Beneficiarios :
          users[i].assistente_id = resp.actor \/ users[i].assistente_id = None
    /\ \E i, j \in Beneficiarios :
          users[i].assistente_id = resp.actor /\ users[j].assistente_id = None
                /\ IsNone(users[j].name)

(***************************************************************************)
(* Donations (schemas/donation.py, routers/donations.py).  An amount is a  *)
(* number of thousandths of a real (0.004 is 4, 250.00 is 250000).         *)
(***************************************************************************)
MaxDonations == 2
MaxLedger == 5

MAX_AMOUNT == 1000000
MaxAmount == MAX_AMOUNT * 1000

\* round(v, 2): the nearest multiple of a hundredth.  A decimal tie (a
\* thousandths digit of 5) goes by the binary value of the float; the amounts
\* of the requests below have no such digit.
Round2(v) ==
    LET q == v \div 10
        r == v % 10
    IN  IF r >= 5 THEN (q + 1) * 10 ELSE q * 10

\* DonationBase.validate_amount: None is the ValueError (422)
validate_amount(v) ==
    IF v <= 0 THEN None
    ELSE IF v > MaxAmount THEN None
    ELSE Some(Round2(v))

\* DonationBase.validate_people_impacted
validate_people_impacted(v) == IF v < 1 THEN None ELSE Some(v)

require_admin(cred) ==
    LET auth == get_current_user(cred) IN
    IF auth.status # 200 THEN auth
    ELSE IF users[Val(auth.user)].role # ADMIN THEN [status |-> 403, user |-> None]
    ELSE auth

ensure_org_exists(org_id) == org_id \in 1..Len(orgs)

DonationIds == 1..Len(donations)
LedgerOf(donation_id) == {i \in 1..Len(ledger) : ledger[i].donation_id = donation_id}

DonationResult(status, donationsAfter, ledgerAfter, out) ==
    [status |-> status, donations |-> donationsAfter, ledger |-> ledgerAfter, out |-> out]

DonationFailed(code) == DonationResult(code, donations, ledger, None)

\* _add_ledger_entry: the row it adds to the session
add_ledger_entry(donation_id, entry_type, description, amount, metadata) ==
    [donation_id |-> donation_id, entry_type |-> entry_type, description |-> description,
     amount |-> amount, ledger_metadata |-> metadata]

\* A faulty CreateLedgerRows, for testing the properties that rest on it:
\* the "completed" row is missing
CreateLedgerRows_CreatedOnly(id, amount) ==
    << add_ledger_entry(id, "created", "mock gateway", Some(amount), None) >>

\* Lines 69-82 of create_donation
CreateLedgerRows(id, amount) ==
    << add_ledger_entry(id, "created", "mock gateway", Some(amount), None),
       add_ledger_entry(id, "completed", "auto completed", Some(amount), None) >>

\* POST /donations: the body is validated (422) before the handler runs; the
\* donation and its two ledger rows are committed together.
create_donation(data) ==
    LET amount == validate_amount(data.amount)
        people == validate_people_impacted(data.people_impacted)
    IN  IF IsNone(amount) \/ IsNone(people) THEN DonationFailed(422)
        ELSE IF ~ensure_org_exists(data.org_id) THEN DonationFailed(404)
        ELSE LET id == Len(donations) + 1
                 donation == [donor_name |-> data.donor_name, org_id |-> data.org_id,
                              amount |-> Val(amount), currency |-> "BRL",
                              status |-> "completed",
                              people_impacted |-> Val(people),
                              completed_at |-> Some(now)]
             IN  DonationResult(201, Append(donations, donation),
                                ledger \o CreateLedgerRows(id, Val(amount)), Some(id))

\* A faulty AppendedLedger, for testing the properties that rest on it:
\* the new row also replaces the rows of
\* the same type
AppendedLedger_Rewrite(donation_id, row) ==
    [i \in 1..Len(ledger) |->
        IF ledger[i].donation_id = donation_id /\ ledger[i].entry_type = row.entry_type
        THEN row ELSE ledger[i]] \o << row >>

\* Lines 149-156 of append_ledger_entry: the table after the commit
AppendedLedger(donation_id, row) == Append(ledger, row)

\* POST /donations/{donation_id}/ledger
append_ledger_entry(cred, donation_id, entry) ==
    LET auth == require_admin(cred) IN
    IF auth.status # 200 THEN DonationFailed(auth.status)
    ELSE IF donation_id \notin DonationIds THEN DonationFailed(404)
    ELSE DonationResult(201, donations,
            AppendedLedger(donation_id,
                add_ledger_entry(donation_id, entry.entry_type, entry.description,
                                 entry.amount, entry.ledger_metadata)),
            Some(Len(ledger) + 1))

ApplyDonation(op, r, actor, req) ==
    /\ donations' = r.donations
    /\ ledger' = r.ledger
    /\ resp' = Resp(op, r.status, actor, req, r.out)
    /\ UNCHANGED <<users, tokens, now, orgs, articles, chats, inflight>>

CreateDonation(data) ==
    /\ Len(donations) < MaxDonations
    /\ Len(ledger) + 2 <= MaxLedger
    /\ ApplyDonation("create_donation", create_donation(data), None, data)

AppendLedgerEntry(cred, donation_id, entry) ==
    /\ Len(ledger) < MaxLedger
    /\ ApplyDonation("append_ledger_entry", append_ledger_entry(cred, donation_id, entry),
                     get_current_user(cred).user,
                     [donation_id |-> donation_id, entry |-> entry])

\* Requests: amounts below, at and above the limits of the validator (-1,
\* 0, 0.004, 0.006, 250, 1000000, 1000000.004), an existing and a missing
\* org, people_impacted 0 and 3.
AmountInputs == {0 - 1000, 0, 4, 6, 250000, MaxAmount, MaxAmount + 4}
PeopleInputs == {0, 3}
OrgInputs == 1..(Len(SeedOrgs) + 1)

DonationInputs ==
    [donor_name : {"Ana"}, org_id : OrgInputs, amount : AmountInputs,
     people_impacted : PeopleInputs]

LedgerEntryInputs ==
    {[entry_type |-> "created", description |-> "note", amount |-> None,
      ledger_metadata |-> None],
     [entry_type |-> "created", description |-> "note", amount |-> Some(0 - 1000),
      ledger_metadata |-> None],
     [entry_type |-> "spent", description |-> "note", amount |-> Some(250000),
      ledger_metadata |-> Some("{}")]}

DonationTargets == 1..(MaxDonations + 1)

DonCreate == \E data \in DonationInputs : CreateDonation(data)

DonAppend ==
    \E cred \in Callers, donation_id \in DonationTargets, entry \in LedgerEntryInputs :
        AppendLedgerEntry(cred, donation_id, entry)

NextDonation == DonCreate \/ DonAppend

SpecDonation == Init /\ [][NextDonation]_vars

(***************************************************************************)
(* C6: in every step of create_donation and append_ledger_entry the ledger *)
(* only grows: every row it held is still there, at its place and with the *)
(* same donation_id, entry_type, description, amount and metadata, and a   *)
(* successful append_ledger_entry adds exactly one row, the entry of the   *)
(* request, to the donation it names.                                      *)
(***************************************************************************)
C6_LedgerStep ==
    /\ Len(ledger') >= Len(ledger)
    /\ \A i \in 1..Len(ledger) : ledger'[i] = ledger[i]
    /\ (resp'.op = "append_ledger_entry" /\ resp'.status = 201) =>
          /\ Len(ledger') = Len(ledger) + 1
          /\ ledger'[Len(ledger')] =
                add_ledger_entry(resp'.req.donation_id, resp'.req.entry.entry_type,
                                 resp'.req.entry.description, resp'.req.entry.amount,
                                 resp'.req.entry.ledger_metadata)
          /\ resp'.req.donation_id \in DonationIds
          /\ donations' = donations
    /\ (resp'.op = "append_ledger_entry" /\ resp'.status # 201) => ledger' = ledger

C6_LedgerAppendOnly == [][C6_LedgerStep]_vars

\* An admin has appended a second "created" row to a donation, after the two
\* rows of its creation.
C6_Witness ==
    /\ resp.op = "append_ledger_entry" /\ resp.status = 201
    /\ \E i, j \in LedgerOf(resp.req.donation_id) :
          i < j /\ ledger[i].entry_type = "created" /\ ledger[j].entry_type = "created"
    /\ \E i \in LedgerOf(resp.req.donation_id) : ledger[i].entry_type = "completed"

(***************************************************************************)
(* C7: every valid create_donation request naming an existing org stores   *)
(* one donation of status completed and exactly two ledger rows for it,    *)
(* "created" then "completed", each with the donation's amount; and in     *)
(* every reachable state every stored donation has both rows.              *)
(***************************************************************************)
ValidDonation(data) ==
    /\ IsSome(validate_amount(data.amount))
    /\ IsSome(validate_people_impacted(data.people_impacted))

HasCreationRows(ds, lg, id) ==
    /\ \E i \in 1..Len(lg) :
          /\ lg[i].donation_id = id /\ lg[i].entry_type = "created"
          /\ lg[i].amount = Some(ds[id].amount)
    /\ \E i \in 1..Len(lg) :
          /\ lg[i].donation_id = id /\ lg[i].entry_type = "completed"
          /\ lg[i].amount = Some(ds[id].amount)

C7_DonationWithTwoRows ==
    /\ \A id \in DonationIds : HasCreationRows(donations, ledger, id)
    /\ \A data \in DonationInputs :
          LET r == create_donation(data)
              id == Len(donations) + 1
          IN  IF ValidDonation(data) /\ ensure_org_exists(data.org_id)
              THEN /\ r.status = 201
                   /\ Len(r.donations) = Len(donations) + 1
                   /\ SubSeq(r.donations, 1, Len(donations)) = donations
                   /\ r.donations[id].status = "completed"
                   /\ r.donations[id].org_id = data.org_id
                   /\ Len(r.ledger) = Len(ledger) + 2
                   /\ SubSeq(r.ledger, 1, Len(ledger)) = ledger
                   /\ \A k \in 1..2 :
                         /\ r.ledger[Len(ledger) + k].donation_id = id
                         /\ r.ledger[Len(ledger) + k].amount = Some(r.donations[id].amount)
                   /\ r.ledger[Len(ledger) + 1].entry_type = "created"
                   /\ r.ledger[Len(ledger) + 2].entry_type = "completed"
              ELSE r.status \in {404, 422} /\ r.donations = donations /\ r.ledger = ledger

\* A donation of 250.00 was just created, after another one.
C7_Witness ==
    /\ resp.op = "create_donation" /\ resp.status = 201
    /\ Len(donations) = 2 /\ Len(ledger) >= 4
    /\ donations[2].amount = 250000
    /\ Cardinality(LedgerOf(2)) = 2

(***************************************************************************)
(* C8 as stated: every stored donation has an amount that is strictly      *)
(* positive and at most 1,000,000, and people_impacted of at least 1.      *)
(* Fails: an amount below 0.005 passes the sign check and is then rounded  *)
(* to 0.00.                                                                *)
(***************************************************************************)
C8_AmountPositive ==
    \A id \in DonationIds :
        /\ donations[id].amount > 0
        /\ donations[id].amount <= MaxAmount
        /\ donations[id].people_impacted >= 1

(***************************************************************************)
(* Email and CPF uniqueness over register, create_beneficiario,            *)
(* update_beneficiario and update_me.                                      *)
(***************************************************************************)
CPF_A == <<"1", "2", "3", "4", "5", "6", "7", "8", "9", "0", "1">>
CPF_A_FORMATTED ==
    <<"1", "2", "3", ".", "4", "5", "6", ".", "7", "8", "9", "-", "0", "1">>

\* models/user.py: cpf is String(11).  A database that enforces the length
\* (PostgreSQL) refuses a longer value at the commit, which no handler
\* catches (500, nothing stored); SQLite, the database of tests/conftest.py,
\* stores it.
CpfColumnFits(u) == IsSome(u.cpf) => Len(Val(u.cpf)) <= CPF_DIGITS

OnDatabase(enforces_length, r) ==
    IF enforces_length /\ r.status = 201 /\ ~CpfColumnFits(r.users[Len(r.users)])
    THEN Failed(500)
    ELSE r

CreateBeneficiarioOn(enforces_length, cred, data) ==
    /\ Len(users) < MaxUsers
    /\ ApplyUsers("create_beneficiario",
                  OnDatabase(enforces_length, create_beneficiario(cred, data)), cred)

CpfInputs == {None, Some(CPF_A), Some(CPF_A_FORMATTED), Some(CPF_SHORT)}

UniqueCreateInputs ==
    [email : {EMAIL_NEW, EMAIL_NEW2}, name : {None}, password : {PW_GOOD},
     cpf : CpfInputs \cup {Some(<<>>)}, assistente_id : {Len(SeedUsers) - 1},
     org_id : {None}]

UniqueUpdateInputs ==
    {[cpf |-> c] : c \in CpfInputs} \cup {[email |-> Some(e)] : e \in {EMAIL_NEW, EMAIL_AS1}}

UniqueTargets == (Len(SeedUsers) + 1)..MaxUsers

UniqueRegister ==
    \E email \in {EMAIL_NEW, EMAIL_AS1}, cpf \in CpfInputs :
        Register(email, PW_GOOD, NAME_NEW, cpf)

UniqueCreate ==
    \E enforces_length \in BOOLEAN, cred \in Callers, data \in UniqueCreateInputs :
        CreateBeneficiarioOn(enforces_length, cred, data)

UniqueUpdate ==
    \E cred \in Callers, id \in UniqueTargets, data \in UniqueUpdateInputs :
        UpdateBeneficiario(cred, id, data)

UniqueUpdateMe ==
    \E cred \in Callers, cpf \in CpfInputs, image \in {"none", "not_image"} :
        UpdateMe(cred, cpf, image)

NextUnique == UniqueRegister \/ UniqueCreate \/ UniqueUpdate \/ UniqueUpdateMe

SpecUnique == Init /\ [][NextUnique]_vars

(***************************************************************************)
(* C9 as stated: after any sequence of register, create_beneficiario,      *)
(* update_beneficiario and update_me no two users share an email, every    *)
(* non-null CPF is an 11-digit number and no two users have the same one,  *)
(* however it was written in the request.  Fails: create_beneficiario      *)
(* stores and compares the CPF as written.                                 *)
(***************************************************************************)
IsCpfNumber(s) == Len(s) = CPF_DIGITS /\ \A k \in 1..Len(s) : isdigit(s[k])

C9_UniqueEmailAndCpf ==
    /\ \A i, j \in UserIds : i # j => users[i].email # users[j].email
    /\ \A i \in UserIds : IsSome(users[i].cpf) => IsCpfNumber(Val(users[i].cpf))
    /\ \A i, j \in UserIds :
          (i # j /\ IsSome(users[i].cpf) /\ IsSome(users[j].cpf)) =>
              only_digits(Val(users[i].cpf)) # only_digits(Val(users[j].cpf))

(***************************************************************************)
(* Articles (routers/articles.py)                                          *)
(***************************************************************************)
MaxArticles == 2
MaxVersion == 2

RECURSIVE lstrip(_)
lstrip(s) == IF s # <<>> /\ isspace(s[1]) THEN lstrip(Tail(s)) ELSE s

RECURSIVE rstrip(_)
rstrip(s) ==
    IF s # <<>> /\ isspace(s[Len(s)]) THEN rstrip(SubSeq(s, 1, Len(s) - 1)) ELSE s

\* str.strip()
strip(s) == rstrip(lstrip(s))

\* The length of the first word of a string that starts with no whitespace
RECURSIVE WordLen(_)
WordLen(s) == IF s = <<>> \/ isspace(s[1]) THEN 0 ELSE 1 + WordLen(Tail(s))

\* str.split(): the words between runs of whitespace
RECURSIVE split(_)
split(s) ==
    LET t == lstrip(s) IN
    IF t = <<>> THEN <<>>
    ELSE << SubSeq(t, 1, WordLen(t)) >> \o split(SubSeq(t, WordLen(t) + 1, Len(t)))

\* "-".join(parts)
RECURSIVE join_hyphen(_)
join_hyphen(parts) ==
    IF parts = <<>> THEN <<>>
    ELSE IF Len(parts) = 1 THEN parts[1]
    ELSE parts[1] \o << "-" >> \o join_hyphen(Tail(parts))

\* The filter of _generate_slug: ch.isalnum() or ch == "-"
is_slug_char(ch) == isalnum(ch) \/ ch = "-"

generate_slug(title) ==
    SelectSeq(join_hyphen(split(strip(lower(title)))), is_slug_char)

\* str(n) for a natural number
DigitChar(d) ==
    CASE d = 0 -> "0" [] d = 1 -> "1" [] d = 2 -> "2" [] d = 3 -> "3" [] d = 4 -> "4"
      [] d = 5 -> "5" [] d = 6 -> "6" [] d = 7 -> "7" [] d = 8 -> "8" [] d = 9 -> "9"

RECURSIVE str_int(_)
str_int(n) ==
    IF n < 10 THEN << DigitChar(n) >> ELSE str_int(n \div 10) \o << DigitChar(n % 10) >>

ArticleIds == DOMAIN articles

\* The query of _ensure_unique_slug: a row with this slug, other than the
\* article being updated (article_id is None on create)
SlugTaken(candidate, article_id) ==
    \E i \in ArticleIds :
        articles[i].slug = candidate /\ (IsSome(article_id) => i # Val(article_id))

DEFAULT_SLUG == << "a", "r", "t", "i", "c", "l", "e" >>

RECURSIVE UniqueFrom(_, _, _)
UniqueFrom(base_slug, suffix, article_id) ==
    LET candidate == IF suffix = 1 THEN base_slug
                     ELSE base_slug \o << "-" >> \o str_int(suffix)
    IN  IF ~SlugTaken(candidate, article_id) THEN candidate
        ELSE UniqueFrom(base_slug, suffix + 1, article_id)

ensure_unique_slug(slug, article_id) ==
    UniqueFrom(IF slug = <<>> THEN DEFAULT_SLUG ELSE slug, 1, article_id)

ArticleResult(status, articlesAfter, out) ==
    [status |-> status, articles |-> articlesAfter, out |-> out]

ArticleFailed(code) == ArticleResult(code, articles, None)

\* The outcome of the optional file parts of a multipart request: "none",
\* "ok", "not_image" (400) or "storage_down" (503); a failure ends the
\* request before the commit.
UploadFailure(upload) ==
    IF upload = "not_image" THEN 400 ELSE IF upload = "storage_down" THEN 503 ELSE 0

\* POST /articles.  The handler takes title and tags as plain form fields
\* (default ""), not through ArticleCreate, so neither validator runs.
create_article(cred, title, tags, status_value, upload) ==
    LET auth == get_current_user(cred) IN
    IF auth.status # 200 THEN ArticleFailed(auth.status)
    ELSE
    LET normalized_title == strip(title)
        slug == ensure_unique_slug(generate_slug(normalized_title), None)
        normalized_tags == lower(strip(tags))
        article == [title |-> normalized_title, slug |-> slug, tags |-> normalized_tags,
                    status |-> status_value, author_id |-> auth.user,
                    approved_by_id |-> None, approved_at |-> None, version |-> 1]
    IN  IF UploadFailure(upload) # 0 THEN ArticleFailed(UploadFailure(upload))
        ELSE ArticleResult(201, Append(articles, article), Some(Len(articles) + 1))

\* Lines 238 and 286: `current_user.is_admin` is evaluated only when the
\* caller is not the author, and User has no such attribute: the request
\* ends in an uncaught AttributeError (500).
EditCheck(actor, article_id) ==
    IF articles[article_id].author_id # Some(actor) THEN 500 ELSE 0

\* ArticleUpdate.validate_title
validate_title_ok(title) == IsNone(title) \/ Len(strip(Val(title))) >= 3

\* ArticleUpdate.validate_tags: blank tags are refused (422), others are
\* stripped and lowercased
validate_tags_ok(tags) == IsNone(tags) \/ strip(Val(tags)) # <<>>
validate_tags(tags) == lower(strip(tags))

\* A faulty BumpVersion, for testing the properties that rest on it: the
\* update leaves the version as it was.
BumpVersion_Keep(a) == a

\* `article.version += 1`: line 254 of update_article, 374 of
\* update_article_with_files
BumpVersion(a) == [a EXCEPT !.version = @ + 1]

\* PUT /articles/{article_id}; `data` maps the fields the request carries to
\* their values (title, tags and status are optional values).
update_article(cred, article_id, data) ==
    LET auth == get_current_user(cred) IN
    IF auth.status # 200 THEN ArticleFailed(auth.status)
    ELSE IF Has(data, "title") /\ ~validate_title_ok(data.title) THEN ArticleFailed(422)
    ELSE IF Has(data, "tags") /\ ~validate_tags_ok(data.tags) THEN ArticleFailed(422)
    ELSE IF article_id \notin ArticleIds THEN ArticleFailed(404)
    ELSE IF EditCheck(Val(auth.user), article_id) # 0
    THEN ArticleFailed(EditCheck(Val(auth.user), article_id))
    \* _generate_slug(None) and a NULL for a NOT NULL column both end in 500
    ELSE IF Has(data, "title") /\ IsNone(data.title) THEN ArticleFailed(500)
    ELSE IF Has(data, "status") /\ IsNone(data.status) THEN ArticleFailed(500)
    ELSE IF Has(data, "tags") /\ IsNone(data.tags) THEN ArticleFailed(500)
    ELSE
    LET a == articles[article_id]
        after == [a EXCEPT
                    !.slug = IF Has(data, "title")
                             THEN ensure_unique_slug(generate_slug(Val(data.title)),
                                                     Some(article_id))
                             ELSE @,
                    !.title = IF Has(data, "title") THEN Val(data.title) ELSE @,
                    !.tags = IF Has(data, "tags") THEN validate_tags(Val(data.tags)) ELSE @,
                    !.status = IF Has(data, "status") THEN Val(data.status) ELSE @]
    IN  ArticleResult(200, [articles EXCEPT ![article_id] = BumpVersion(after)],
                      Some(article_id))

\* PATCH /articles/{article_id}
update_article_with_files(cred, article_id, title, tags, status_value, upload) ==
    LET auth == get_current_user(cred) IN
    IF auth.status # 200 THEN ArticleFailed(auth.status)
    ELSE IF article_id \notin ArticleIds THEN ArticleFailed(404)
    ELSE IF EditCheck(Val(auth.user), article_id) # 0
    THEN ArticleFailed(EditCheck(Val(auth.user), article_id))
    ELSE IF UploadFailure(upload) # 0 THEN ArticleFailed(UploadFailure(upload))
    ELSE
    LET a == articles[article_id]
        retitle == IsSome(title) /\ strip(Val(title)) # <<>>
        after == [a EXCEPT
                    !.title = IF retitle THEN strip(Val(title)) ELSE @,
                    !.slug = IF retitle
                             THEN ensure_unique_slug(generate_slug(strip(Val(title))),
                                                     Some(article_id))
                             ELSE @,
                    !.tags = IF IsSome(tags) THEN lower(strip(Val(tags))) ELSE @,
                    !.status = IF IsSome(status_value) THEN Val(status_value) ELSE @]
    IN  ArticleResult(200, [articles EXCEPT ![article_id] = BumpVersion(after)],
                      Some(article_id))

\* POST /articles/approve: the handler depends on get_current_user only
approve_article(cred, payload) ==
    LET auth == get_current_user(cred) IN
    IF auth.status # 200 THEN ArticleFailed(auth.status)
    ELSE IF payload.article_id \notin ArticleIds THEN ArticleFailed(404)
    ELSE
    LET after == [articles[payload.article_id] EXCEPT
                    !.approved_by_id = auth.user,
                    !.approved_at = Some(now),
                    !.status = IF payload.approved THEN "approved" ELSE "rejected"]
    IN  ArticleResult(200, [articles EXCEPT ![payload.article_id] = after],
                      Some(payload.article_id))

ApplyArticle(op, r, cred, req) ==
    /\ articles' = r.articles
    /\ resp' = Resp(op, r.status, get_current_user(cred).user, req, r.out)
    /\ UNCHANGED <<users, tokens, now, orgs, donations, ledger, chats, inflight>>

CreateArticle(cred, title, tags, status_value, upload) ==
    /\ Len(articles) < MaxArticles
    /\ ApplyArticle("create_article",
                    create_article(cred, title, tags, status_value, upload),
                    cred, [title |-> title])

UpdateArticle(cred, article_id, data) ==
    /\ article_id \in ArticleIds => articles[article_id].version < MaxVersion
    /\ ApplyArticle("update_article", update_article(cred, article_id, data),
                    cred, [article_id |-> article_id])

UpdateArticleWithFiles(cred, article_id, title, tags, status_value, upload) ==
    /\ article_id \in ArticleIds => articles[article_id].version < MaxVersion
    /\ ApplyArticle("update_article_with_files",
                    update_article_with_files(cred, article_id, title, tags, status_value,
                                              upload),
                    cred, [article_id |-> article_id])

ApproveArticle(cred, payload) ==
    ApplyArticle("approve_article", approve_article(cred, payload), cred,
                 [article_id |-> payload.article_id])

\* Titles: two spellings of one slug ("A b", " a  B "), one that is a slug
\* already ("a-b"), ones whose slug is empty ("", "!!"), and one with a
\* capital letter that has no lowercase.
TITLE_AB == << "A", " ", "b" >>
TITLE_AB_SPACED == << " ", "a", " ", " ", "B", " " >>
TITLE_A_HYPHEN_B == << "a", "-", "b" >>
TITLE_PUNCT == << "!", "!" >>
TITLE_MATH == << "U+1D400", "b", "c" >>

Titles ==
    {<<>>, TITLE_AB, TITLE_AB_SPACED, TITLE_A_HYPHEN_B, TITLE_PUNCT, TITLE_MATH}

TAGS_AB == << "A", ",", "b" >>

\* The admin and the first assistant write articles; a request may come
\* without credentials.
ArticleCallers == {None} \cup {Some(create_access_token(u, now)) : u \in 1..2}
ArticleTargets == 1..(MaxArticles + 1)

ArticleUpdateInputs ==
    {[title |-> Some(t)] : t \in Titles \ {TITLE_AB_SPACED}}
    \cup {[title |-> None], [status |-> Some("pending")]}

ArtCreate ==
    \E cred \in ArticleCallers, title \in Titles \ {TITLE_PUNCT}, upload \in {"none", "not_image"} :
        CreateArticle(cred, title, TAGS_AB, "draft", upload)

ArtUpdate ==
    \E cred \in ArticleCallers, article_id \in ArticleTargets, data \in ArticleUpdateInputs :
        UpdateArticle(cred, article_id, data)

ArtPatch ==
    \E cred \in ArticleCallers, article_id \in ArticleTargets,
       title \in {None} \cup {Some(t) : t \in Titles \ {<<>>, TITLE_AB}},
       upload \in {"none", "storage_down"} :
        UpdateArticleWithFiles(cred, article_id, title, None, None, upload)

NextArticle == ArtCreate \/ ArtUpdate \/ ArtPatch

SpecArticle == Init /\ [][NextArticle]_vars

(***************************************************************************)
(* C10 as stated: after any sequence of create_article, update_article and *)
(* update_article_with_files every stored slug consists only of lowercase  *)
(* alphanumeric characters and hyphens, and no two articles have the same  *)
(* slug.  Fails: a capital letter without a lowercase mapping passes       *)
(* lower() and isalnum() unchanged.                                        *)
(***************************************************************************)
IsLowerAlnum(ch) == ch \in Digits \cup Lower

C10_SlugsWellFormedAndUnique ==
    /\ \A i \in ArticleIds :
          \A k \in 1..Len(articles[i].slug) :
              IsLowerAlnum(articles[i].slug[k]) \/ articles[i].slug[k] = "-"
    /\ \A i, j \in ArticleIds : i # j => articles[i].slug # articles[j].slug

(***************************************************************************)
(* Editorial workflow: create, update (PUT, PATCH) and approve, by the     *)
(* admin (user 1), the first assistant (user 2) or without credentials.    *)
(***************************************************************************)
TITLE_SHORT == << "a" >>
TAGS_BLANK == << " " >>

EditorialCreateInputs ==
    {[title |-> TITLE_AB, tags |-> TAGS_AB], [title |-> TITLE_SHORT, tags |-> TAGS_BLANK]}

EditorialUpdateInputs ==
    {<<>>, [title |-> Some(TITLE_A_HYPHEN_B)], [tags |-> Some(TAGS_BLANK)]}

ApproveInputs == [article_id : ArticleTargets, approved : BOOLEAN]

EdCreate ==
    \E cred \in ArticleCallers, data \in EditorialCreateInputs :
        CreateArticle(cred, data.title, data.tags, "draft", "none")

EdUpdate ==
    \E cred \in ArticleCallers, article_id \in ArticleTargets,
       data \in EditorialUpdateInputs :
        UpdateArticle(cred, article_id, data)

EdPatch ==
    \E cred \in ArticleCallers, article_id \in ArticleTargets,
       upload \in {"none", "storage_down"} :
        UpdateArticleWithFiles(cred, article_id, None, Some(TAGS_AB), None, upload)

EdApprove ==
    \E cred \in ArticleCallers, payload \in ApproveInputs : ApproveArticle(cred, payload)

NextEditorial == EdCreate \/ EdUpdate \/ EdPatch \/ EdApprove

SpecEditorial == Init /\ [][NextEditorial]_vars

(***************************************************************************)
(* C11 as stated: approve_article changes an article only when the actor   *)
(* is an admin; a call by anyone else is rejected and leaves the articles  *)
(* unchanged, and every approved or rejected article was decided by an     *)
(* admin.  Fails: the handler asks for an authenticated user, of any role. *)
(***************************************************************************)
C11_ApproveAdminOnly ==
    /\ \A cred \in ArticleCallers, payload \in ApproveInputs :
          (~IsAdmin(cred) /\ payload.article_id \in ArticleIds) =>
              /\ approve_article(cred, payload).status \in {401, 403}
              /\ approve_article(cred, payload).articles = articles
    /\ \A i \in ArticleIds :
          articles[i].status \in {"approved", "rejected"} =>
              /\ IsSome(articles[i].approved_by_id)
              /\ users[Val(articles[i].approved_by_id)].role = ADMIN

(***************************************************************************)
(* C12 as stated: PUT and PATCH on an existing article succeed exactly     *)
(* when the actor is its author or has role admin or assistant; any other  *)
(* authenticated actor gets 403; a refused update leaves the article       *)
(* unchanged.  Fails: for an actor who is not the author the handlers read *)
(* current_user.is_admin, which User does not have, and end in 500, the    *)
(* admin included.                                                         *)
(***************************************************************************)
MayEdit(cred, article_id) ==
    \/ articles[article_id].author_id = Actor(cred)
    \/ IsAdmin(cred)
    \/ IsAssistente(cred)

C12_EditByAuthorOrStaff ==
    \A cred \in ArticleCallers, article_id \in ArticleIds :
        IsSome(Actor(cred)) =>
            LET put == update_article(cred, article_id, <<>>)
                patch == update_article_with_files(cred, article_id, None, Some(TAGS_AB),
                                                   None, "none")
            IN  IF MayEdit(cred, article_id)
                THEN put.status = 200 /\ patch.status = 200
                ELSE /\ put.status = 403 /\ put.articles = articles
                     /\ patch.status = 403 /\ patch.articles = articles

(***************************************************************************)
(* C13 as stated: create_article refuses, before any write, a request      *)
(* whose title has fewer than 3 characters or whose tags are empty or      *)
(* blank, so every stored article has a title of at least 3 characters and *)
(* non-empty tags.  Fails: the handler reads plain form fields and runs no *)
(* validator.                                                              *)
(***************************************************************************)
C13_CreateValidated ==
    /\ \A cred \in ArticleCallers, data \in EditorialCreateInputs :
          (Len(data.title) < 3 \/ strip(data.tags) = <<>>) =>
              LET r == create_article(cred, data.title, data.tags, "draft", "none")
              IN  r.status # 201 /\ r.articles = articles
    /\ \A i \in ArticleIds :
          Len(articles[i].title) >= 3 /\ articles[i].tags # <<>>

(***************************************************************************)
(* C14: in every step, an article that appears has version 1, an article   *)
(* that a successful PUT or PATCH updated, whatever the request carried,   *)
(* has its version increased by exactly 1, and every other article keeps   *)
(* its version (approve_article, refused or failed updates, creations).    *)
(***************************************************************************)
UpdatedBy(r, i) ==
    /\ r.op \in {"update_article", "update_article_with_files"}
    /\ r.status = 200
    /\ r.req.article_id = i

C14_VersionStep ==
    /\ Len(articles') >= Len(articles)
    /\ \A i \in DOMAIN articles' :
          IF i \notin ArticleIds THEN articles'[i].version = 1
          ELSE IF UpdatedBy(resp', i) /\ (articles' # articles \/ resp' # resp)
          THEN articles'[i].version = articles[i].version + 1
          ELSE articles'[i].version = articles[i].version

C14_VersionCountsUpdates == [][C14_VersionStep]_vars

\* An article was approved and then updated by an empty PUT: it is at
\* version 2 and still approved.
C14_Witness ==
    /\ resp.op = "update_article" /\ resp.status = 200
    /\ \E i \in ArticleIds :
          /\ resp.req.article_id = i
          /\ articles[i].version = 2
          /\ articles[i].status = "approved"
          /\ articles[i].title = TITLE_AB
    /\ \E j \in ArticleIds : articles[j].version = 1 /\ articles[j].status = "rejected"

(***************************************************************************)
(* routers/orgs.py.  The random draw of generate_invite_code and the       *)
(* outcome of the SMTP delivery are inputs of the handlers: `code` is the  *)
(* value _generate_unique_invite_code returns, `mail` is "sent",           *)
(* "not_configured" (EmailNotConfiguredError) or "smtp_failure"            *)
(* (smtplib.SMTPException, which send_email turns into HTTPException 502). *)
(***************************************************************************)
MaxOrgs == 2

OrgIds == DOMAIN orgs

\* A faulty CodeExists, for testing the properties that rest on it: the
\* lookup finds nothing, so the first draw is always returned.
CodeExists_Never(code) == FALSE

\* db.query(Org).filter(func.upper(Org.invite_code) == code).first()
CodeExists(code) == \E i \in OrgIds : upper(orgs[i].invite_code) = code

\* _generate_unique_invite_code: the loop returns the first draw that no
\* stored code equals; the set of the values it can return
generate_unique_invite_code == {code \in generate_invite_code : ~CodeExists(code)}

\* db.query(Org).filter(func.lower(Org.email) == email.lower()).first()
OrgEmailTaken(email) == \E i \in OrgIds : lower(orgs[i].email) = lower(email)

OrgResult(status, orgsAfter, out) ==
    [status |-> status, orgs |-> orgsAfter, out |-> out]

OrgFailed(code) == OrgResult(code, orgs, None)

\* A faulty NewOrg, for testing the properties that rest on it: the org is
\* created approved.
NewOrg_Approved(name, email, code) ==
    [name |-> name, email |-> email, invite_code |-> code,
     verified |-> FALSE, approved |-> TRUE, approved_by_id |-> None,
     verified_at |-> None, approved_at |-> None]

\* Org(..., verified=False, approved=False) of create_org and
\* invite_org_by_email
NewOrg(name, email, code) ==
    [name |-> name, email |-> email, invite_code |-> code,
     verified |-> FALSE, approved |-> FALSE, approved_by_id |-> None,
     verified_at |-> None, approved_at |-> None]

\* send_email raises HTTPException(502) on smtplib.SMTPException; the org
\* handlers catch EmailNotConfiguredError only
MailFailure(mail) == IF mail = "smtp_failure" THEN 502 ELSE 0

\* POST /orgs
create_org(cred, data, code) ==
    LET auth == get_current_user(cred) IN
    IF auth.status # 200 THEN OrgFailed(auth.status)
    ELSE IF OrgEmailTaken(data.email) THEN OrgFailed(400)
    ELSE OrgResult(201, Append(orgs, NewOrg(data.name, data.email, code)),
                   Some([org_id |-> Len(orgs) + 1, invite_code |-> code]))

\* POST /orgs/invite-by-email: the org is committed before the mail is sent
invite_org_by_email(cred, payload, code, mail) ==
    LET auth == get_current_user(cred) IN
    IF auth.status # 200 THEN OrgFailed(auth.status)
    ELSE IF Len(strip(payload.name)) < 3 THEN OrgFailed(422)
    ELSE IF OrgEmailTaken(payload.email) THEN OrgFailed(400)
    ELSE LET after == Append(orgs, NewOrg(strip(payload.name), payload.email, code))
         IN  IF MailFailure(mail) # 0 THEN OrgResult(MailFailure(mail), after, None)
             ELSE OrgResult(201, after,
                            Some([org_id |-> Len(orgs) + 1, invite_code |-> code]))

\* filter(func.upper(Org.invite_code) == payload.invite_code.upper()) on a
\* table; the payload validator has already uppercased the code once
InviteMatches(table, code) ==
    {i \in DOMAIN table : upper(table[i].invite_code) = upper(code)}

\* POST /orgs/validate-invite, without authentication.  out.org_ids is the
\* set of rows the query selects; first() answers with one of them.
validate_invite_code(payload) ==
    IF Len(payload.invite_code) < 6 THEN OrgFailed(422)
    ELSE LET code == upper(payload.invite_code)
             found == InviteMatches(orgs, code)
         IN  OrgResult(200, orgs, Some([valid |-> found # {}, org_ids |-> found]))

\* POST /orgs/{org_id}/regenerate-invite
regenerate_invite_code(cred, org_id, code) ==
    LET auth == get_current_user(cred) IN
    IF auth.status # 200 THEN OrgFailed(auth.status)
    ELSE IF org_id \notin OrgIds THEN OrgFailed(404)
    ELSE OrgResult(200, [orgs EXCEPT ![org_id].invite_code = code],
                   Some([org_id |-> org_id, invite_code |-> code]))

\* POST /orgs/{org_id}/verify-email
verify_org_email(cred, org_id) ==
    LET auth == get_current_user(cred) IN
    IF auth.status # 200 THEN OrgFailed(auth.status)
    ELSE IF org_id \notin OrgIds THEN OrgFailed(404)
    ELSE OrgResult(200, [orgs EXCEPT ![org_id].verified = TRUE,
                                     ![org_id].verified_at = Some(now)],
                   Some([org_id |-> org_id]))

\* A faulty ApprovalFlags, for testing the properties that rest on it: a
\* rejection also withdraws the verification.
ApprovalFlags_Unverify(org, approved, actor) ==
    [org EXCEPT !.approved = approved, !.approved_by_id = Some(actor),
                !.approved_at = Some(now),
                !.verified = approved,
                !.verified_at = IF approved THEN Some(now) ELSE None]

\* Lines 296-301 of approve_org
ApprovalFlags(org, approved, actor) ==
    [org EXCEPT !.approved = approved, !.approved_by_id = Some(actor),
                !.approved_at = Some(now),
                !.verified = IF approved THEN TRUE ELSE @,
                !.verified_at = IF approved THEN Some(now) ELSE @]

MSG_APPROVED == <<"ONG aprovada com sucesso.">>
MSG_REJECTED == <<"ONG rejeitada: ">>
MSG_NO_REASON == <<"sem motivo informado">>

\* Lines 306-308 of approve_org: `payload.reason or 'sem motivo informado'`
ApprovalMessage(approved, reason) ==
    IF approved THEN MSG_APPROVED
    ELSE MSG_REJECTED \o (IF IsNone(reason) \/ Val(reason) = <<>>
                          THEN MSG_NO_REASON ELSE Val(reason))

\* POST /orgs/approve: the dependency is get_current_user; the change is
\* committed before the notification is sent
approve_org(cred, payload, mail) ==
    LET auth == get_current_user(cred) IN
    IF auth.status # 200 THEN OrgFailed(auth.status)
    ELSE IF payload.org_id \notin OrgIds THEN OrgFailed(404)
    ELSE LET actor == Val(auth.user)
             after == [orgs EXCEPT ![payload.org_id] =
                          ApprovalFlags(@, payload.approved, actor)]
         IN  IF MailFailure(mail) # 0 THEN OrgResult(MailFailure(mail), after, None)
             ELSE OrgResult(200, after,
                            Some([org_id |-> payload.org_id,
                                  approved |-> payload.approved,
                                  approved_by_id |-> actor,
                                  approved_at |-> Some(now),
                                  message |-> ApprovalMessage(payload.approved,
                                                              payload.reason)]))

ApplyOrg(op, r, cred, req) ==
    /\ orgs' = r.orgs
    /\ resp' = Resp(op, r.status, get_current_user(cred).user, req, r.out)
    /\ UNCHANGED <<users, tokens, now, donations, ledger, articles, chats, inflight>>

CreateOrg(cred, data, code) ==
    /\ Len(orgs) < MaxOrgs
    /\ code \in generate_unique_invite_code
    /\ ApplyOrg("create_org", create_org(cred, data, code), cred, data)

InviteOrgByEmail(cred, payload, code, mail) ==
    /\ Len(orgs) < MaxOrgs
    /\ code \in generate_unique_invite_code
    /\ ApplyOrg("invite_org_by_email", invite_org_by_email(cred, payload, code, mail),
                cred, payload)

ValidateInviteCode(payload) ==
    ApplyOrg("validate_invite_code", validate_invite_code(payload), None, payload)

RegenerateInviteCode(cred, org_id, code) ==
    /\ code \in generate_unique_invite_code
    /\ ApplyOrg("regenerate_invite_code", regenerate_invite_code(cred, org_id, code),
                cred, [org_id |-> org_id])

VerifyOrgEmail(cred, org_id) ==
    ApplyOrg("verify_org_email", verify_org_email(cred, org_id), cred,
             [org_id |-> org_id])

ApproveOrg(cred, payload, mail) ==
    ApplyOrg("approve_org", approve_org(cred, payload, mail), cred,
             [org_id |-> payload.org_id, approved |-> payload.approved, mail |-> mail])

(***************************************************************************)
(* The organisations under the requests of an anonymous client, the admin  *)
(* and an assistant                                                        *)
(***************************************************************************)
NAME_ONG == <<"o", "n", "g">>
NAME_SHORT == <<" ", "o", " ">>
EMAIL_ONG == <<"o", "@", "o">>
REASON_DOCS == <<"d", "o", "c", "s">>

OrgCallers == {None} \cup {Some(create_access_token(u, now)) : u \in 1..2}
OrgTargets == 1..(MaxOrgs + 1)
MailOutcomes == {"sent", "not_configured", "smtp_failure"}
OrgCreateInputs == {[name |-> NAME_ONG, email |-> EMAIL_ONG],
                    [name |-> NAME_ONG, email |-> upper(EMAIL_SEED_ORG)]}
OrgInviteInputs == {[name |-> NAME_ONG, email |-> EMAIL_ONG],
                    [name |-> NAME_SHORT, email |-> EMAIL_ONG]}
\* A rejection carries a reason, an approval carries none
ApproveOrgInputs ==
    {[org_id |-> i, approved |-> TRUE, reason |-> None] : i \in OrgTargets}
    \cup {[org_id |-> i, approved |-> FALSE, reason |-> Some(REASON_DOCS)] : i \in OrgTargets}

\* The spellings of a code that differ from it in letter case only
CaseVariants(code) ==
    {code, lower(code),
     [i \in 1..Len(code) |-> IF i % 2 = 1 THEN lower_ch(code[i]) ELSE code[i]]}

ValidateInputs ==
    {[invite_code |-> v] : v \in UNION {CaseVariants(c) : c \in generate_invite_code}}
    \cup {[invite_code |-> <<"a", "b", "c">>]}

OrgCreate ==
    \E cred \in OrgCallers, data \in OrgCreateInputs, code \in generate_invite_code :
        CreateOrg(cred, data, code)

OrgInvite ==
    \E cred \in OrgCallers, payload \in OrgInviteInputs,
       code \in generate_invite_code, mail \in MailOutcomes :
        InviteOrgByEmail(cred, payload, code, mail)

OrgValidate == \E payload \in ValidateInputs : ValidateInviteCode(payload)

OrgRegenerate ==
    \E cred \in OrgCallers, org_id \in OrgTargets, code \in generate_invite_code :
        RegenerateInviteCode(cred, org_id, code)

NextInvite ==
    \/ OrgCreate
    \/ OrgInvite
    \/ OrgValidate
    \/ OrgRegenerate

SpecInvite == Init /\ [][NextInvite]_vars

(***************************************************************************)
(* C15: in every reachable state no two orgs hold invite codes that are    *)
(* equal when letter case is ignored, and every code a generation call can *)
(* return differs, letter case ignored, from every stored code, so that    *)
(* create_org, invite_org_by_email and regenerate_invite_code store a code *)
(* no other org holds.                                                     *)
(***************************************************************************)
C15_InviteCodesUnique ==
    /\ \A i, j \in OrgIds :
          i # j => upper(orgs[i].invite_code) # upper(orgs[j].invite_code)
    /\ \A code \in generate_unique_invite_code, i \in OrgIds :
          upper(orgs[i].invite_code) # upper(code)
    /\ \A cred \in OrgCallers, data \in OrgCreateInputs, code \in generate_unique_invite_code :
          LET r == create_org(cred, data, code) IN
          r.status = 201 => InviteMatches(orgs, r.orgs[Len(r.orgs)].invite_code) = {}

\* Two orgs; the seeded one has just been given a new code while a draw of
\* the generator was taken by the other org.
C15_Witness ==
    /\ Len(orgs) = 2
    /\ resp.op = "regenerate_invite_code" /\ resp.status = 200 /\ resp.req.org_id = 1
    /\ orgs[1].invite_code # SeedOrgs[1].invite_code
    /\ orgs[2].invite_code \in generate_invite_code
    /\ generate_unique_invite_code # generate_invite_code

(***************************************************************************)
(* C16: in every step in which regenerate_invite_code succeeds for an org, *)
(* the org's stored code differs from the one it held before, and          *)
(* validate_invite_code, asked afterwards with the previous code in any    *)
(* letter case, does not select that org; a validate_invite_code step      *)
(* leaves every org as it was.                                             *)
(***************************************************************************)
C16_Step ==
    /\ (resp'.op = "regenerate_invite_code" /\ resp'.status = 200) =>
          LET x == resp'.req.org_id
              previous == orgs[x].invite_code
          IN  /\ orgs'[x].invite_code # previous
              /\ \A v \in CaseVariants(previous) : x \notin InviteMatches(orgs', upper(v))
              /\ Val(resp'.out).invite_code = orgs'[x].invite_code
    /\ resp'.op = "validate_invite_code" => orgs' = orgs

C16_OldCodeRevoked == [][C16_Step]_vars

\* The seeded org's code was regenerated and its first code, sent in lower
\* case, has just been answered as not valid.
C16_Witness ==
    /\ resp.op = "validate_invite_code" /\ resp.status = 200
    /\ resp.req.invite_code = lower(SeedOrgs[1].invite_code)
    /\ ~Val(resp.out).valid
    /\ orgs[1].invite_code # SeedOrgs[1].invite_code

(***************************************************************************)
(* The approval of organisations: the seeded org and one org created by    *)
(* the admin or an assistant, verified, approved and rejected at different *)
(* instants                                                                *)
(***************************************************************************)
ApprovalCreate ==
    \E cred \in OrgCallers, code \in {upper(URLSAFE_2)} :
        CreateOrg(cred, [name |-> NAME_ONG, email |-> EMAIL_ONG], code)

OrgVerify == \E org_id \in OrgTargets : VerifyOrgEmail(Some(create_access_token(1, now)), org_id)

OrgApprove ==
    \E cred \in OrgCallers, payload \in ApproveOrgInputs, mail \in MailOutcomes :
        ApproveOrg(cred, payload, mail)

NextApproval ==
    \/ Tick
    \/ ApprovalCreate
    \/ OrgVerify
    \/ OrgApprove

SpecApproval == Init /\ [][NextApproval]_vars

(***************************************************************************)
(* C17: for every reachable database, every authenticated actor and every  *)
(* existing org, approve_org with approved=true leaves the org approved    *)
(* and verified with verified_at stamped now; with approved=false it       *)
(* leaves the org not approved with verified and verified_at as they were, *)
(* and the message of its response contains the reason supplied; either    *)
(* way approved_by_id is the actor, approved_at is stamped now, and        *)
(* nothing else in the table changes.                                      *)
(***************************************************************************)
C17_ApprovalFlags ==
    \A cred \in OrgCallers, payload \in ApproveOrgInputs, mail \in MailOutcomes :
        (IsSome(Actor(cred)) /\ payload.org_id \in OrgIds) =>
            LET r == approve_org(cred, payload, mail)
                before == orgs[payload.org_id]
                after == r.orgs[payload.org_id]
            IN  /\ after.approved = payload.approved
                /\ after.approved_by_id = Actor(cred)
                /\ after.approved_at = Some(now)
                /\ payload.approved =>
                      after.verified /\ after.verified_at = Some(now)
                /\ ~payload.approved =>
                      /\ after.verified = before.verified
                      /\ after.verified_at = before.verified_at
                /\ after.invite_code = before.invite_code
                /\ after.email = before.email
                /\ \A i \in OrgIds \ {payload.org_id} : r.orgs[i] = orgs[i]
                /\ (r.status = 200 /\ ~payload.approved /\ IsSome(payload.reason)) =>
                      Contains(Val(r.out).message, Val(payload.reason))

\* An org verified at one instant has just been rejected at a later one,
\* with a reason, while another org was never verified.
C17_Witness ==
    /\ resp.op = "approve_org" /\ resp.status = 200 /\ ~resp.req.approved
    /\ Contains(Val(resp.out).message, REASON_DOCS)
    /\ LET org == orgs[resp.req.org_id]
       IN  /\ ~org.approved /\ org.verified
           /\ org.approved_by_id = resp.actor
           /\ org.approved_at = Some(now)
           /\ org.verified_at # org.approved_at
    /\ \E i \in OrgIds : ~orgs[i].verified /\ ~orgs[i].approved /\ IsSome(orgs[i].approved_by_id)

(***************************************************************************)
(* C18 as stated: approve_org called by anyone who is not an admin is      *)
(* refused with 401 or 403 and leaves the table as it was, so a non-null   *)
(* approved_by_id is always the id of an admin.  Fails: the handler        *)
(* depends on get_current_user, not on require_admin.                      *)
(***************************************************************************)
C18_ApproveByAdminOnly ==
    /\ \A cred \in OrgCallers, payload \in ApproveOrgInputs, mail \in MailOutcomes :
          (~IsAdmin(cred) /\ payload.org_id \in OrgIds) =>
              LET r == approve_org(cred, payload, mail)
              IN  r.status \in {401, 403} /\ r.orgs = orgs
    /\ \A i \in OrgIds :
          IsSome(orgs[i].approved_by_id) => users[Val(orgs[i].approved_by_id)].role = ADMIN

(***************************************************************************)
(* C19 as stated: whatever the outcome of the notification email (sent,    *)
(* SMTP not configured, SMTP failure), approve_org called by an            *)
(* authenticated actor for an existing org commits the approval and        *)
(* answers 200 with the approval response.  Fails: an SMTP failure leaves  *)
(* the approval committed but answers 502.                                 *)
(***************************************************************************)
C19_MailNeverFailsApproval ==
    \A cred \in OrgCallers, payload \in ApproveOrgInputs, mail \in MailOutcomes :
        (IsSome(Actor(cred)) /\ payload.org_id \in OrgIds) =>
            LET r == approve_org(cred, payload, mail)
            IN  /\ r.orgs[payload.org_id].approved = payload.approved
                /\ r.orgs[payload.org_id].approved_by_id = Actor(cred)
                /\ r.status = 200
                /\ IsSome(r.out) /\ Val(r.out).approved = payload.approved

(***************************************************************************)
(* routers/chat.py and the anonymous session of routers/auth.py.  The chat *)
(* router asks dependencies.py for `get_optional_user`; the optional       *)
(* authentication dependencies.py defines is get_current_user_optional,    *)
(* which is what the handlers are given here.                              *)
(***************************************************************************)
MaxChats == 2

\* The rows of the chats table: ids are never reused, a deleted row (and,
\* by the cascade of Chat.messages, its messages) is marked and left out
ChatIds == {i \in DOMAIN chats : ~chats[i].deleted}

\* get_current_user_optional: the active user of a valid access token, None
\* for no header, a bad token, a token of another type or an inactive user
get_current_user_optional(cred) ==
    IF IsNone(cred) THEN None
    ELSE LET payload == decode_token(Val(cred), now) IN
         IF IsNone(payload) \/ Val(payload).type # "access" THEN None
         ELSE IF Val(payload).sub \notin UserIds THEN None
         ELSE IF ~users[Val(payload).sub].is_active THEN None
         ELSE Some(Val(payload).sub)

\* security.generate_session_id: "anon_" and a token_urlsafe(32) draw
generate_session_id == {"anon_1", "anon_2"}

\* chats.session_id is UNIQUE (several NULLs are allowed): a commit that
\* repeats a stored session id raises IntegrityError, answered 500
SessionTaken(session_id) ==
    IsSome(session_id) /\ \E i \in ChatIds : chats[i].session_id = session_id

ChatResult(status, chatsAfter, out) ==
    [status |-> status, chats |-> chatsAfter, out |-> out]

ChatFailed(code) == ChatResult(code, chats, None)

\* POST /chats
create_chat(cred, data) ==
    LET current_user == get_current_user_optional(cred)
        chat == [user_id |-> current_user,
                 session_id |-> IF IsNone(current_user) THEN data.session_id ELSE None,
                 title |-> data.title,
                 is_active |-> TRUE,
                 rating |-> None, rating_comment |-> None, rated_at |-> None,
                 messages |-> <<>>, deleted |-> FALSE]
    IN  IF SessionTaken(chat.session_id) THEN ChatFailed(500)
        ELSE ChatResult(201, Append(chats, chat), Some(Len(chats) + 1))

\* POST /auth/anonymous-session; session_id is the draw of generate_session_id
create_anonymous_session(session_id) ==
    LET chat == [user_id |-> None, session_id |-> Some(session_id),
                 title |-> None, is_active |-> TRUE,
                 rating |-> None, rating_comment |-> None, rated_at |-> None,
                 messages |-> <<>>, deleted |-> FALSE]
    IN  IF SessionTaken(chat.session_id) THEN ChatFailed(500)
        ELSE ChatResult(201, Append(chats, chat), Some(Len(chats) + 1))

\* PATCH /chats/{chat_id}; `data` maps the fields the request carries
update_chat(cred, chat_id, data) ==
    LET current_user == get_current_user_optional(cred) IN
    IF chat_id \notin ChatIds THEN ChatFailed(404)
    ELSE IF IsSome(current_user) /\ chats[chat_id].user_id # current_user
    THEN ChatFailed(403)
    ELSE LET chat == chats[chat_id]
             after == [chat EXCEPT
                          !.title = IF Has(data, "title") THEN data.title ELSE @,
                          !.is_active = IF Has(data, "is_active") THEN data.is_active ELSE @]
         IN  ChatResult(200, [chats EXCEPT ![chat_id] = after], Some(chat_id))

ApplyChat(op, r, cred, req) ==
    /\ chats' = r.chats
    /\ resp' = Resp(op, r.status, get_current_user_optional(cred), req, r.out)
    /\ UNCHANGED <<users, tokens, now, orgs, donations, ledger, articles, inflight>>

CreateChat(cred, data) ==
    /\ Len(chats) < MaxChats
    /\ ApplyChat("create_chat", create_chat(cred, data), cred, data)

CreateAnonymousSession(session_id) ==
    /\ Len(chats) < MaxChats
    /\ ApplyChat("create_anonymous_session", create_anonymous_session(session_id),
                 None, [session_id |-> session_id])

UpdateChat(cred, chat_id, data) ==
    ApplyChat("update_chat", update_chat(cred, chat_id, data), cred,
              [chat_id |-> chat_id])

(***************************************************************************)
(* The chats of an anonymous client, a client with a refresh token in      *)
(* place of an access token, the admin and an assistant                    *)
(***************************************************************************)
ChatCallers ==
    {None, Some(create_refresh_token(1, now))}
    \cup {Some(create_access_token(u, now)) : u \in 1..2}

ChatCreateInputs ==
    [title : {None}, session_id : {None, Some("anon_1"), Some("client")}]

ChatUpdateInputs == {[is_active |-> FALSE], [title |-> Some("t")]}

ChatCreate == \E cred \in ChatCallers, data \in ChatCreateInputs : CreateChat(cred, data)

ChatAnonymous == \E session_id \in generate_session_id : CreateAnonymousSession(session_id)

ChatUpdate ==
    \E cred \in ChatCallers, chat_id \in 1..(MaxChats + 1), data \in ChatUpdateInputs :
        UpdateChat(cred, chat_id, data)

NextChat ==
    \/ ChatCreate
    \/ ChatAnonymous
    \/ ChatUpdate

SpecChat == Init /\ [][NextChat]_vars

(***************************************************************************)
(* C20 as stated: every chat has exactly one of user_id and session_id: a  *)
(* chat created with a valid access token has user_id and no session_id, a *)
(* chat created without one, by create_chat or by the anonymous session,   *)
(* has a session_id and no user_id.  Fails: create_chat without a token    *)
(* and without a session_id in the body stores a chat that has neither.    *)
(***************************************************************************)
C20_ChatOwnerExclusive ==
    /\ \A i \in ChatIds : IsSome(chats[i].user_id) # IsSome(chats[i].session_id)
    /\ \A cred \in ChatCallers, data \in ChatCreateInputs :
          LET r == create_chat(cred, data) IN
          r.status = 201 =>
              LET chat == r.chats[Len(r.chats)] IN
              IF IsSome(get_current_user_optional(cred))
              THEN chat.user_id = get_current_user_optional(cred) /\ IsNone(chat.session_id)
              ELSE IsNone(chat.user_id) /\ IsSome(chat.session_id)

(***************************************************************************)
(* The per-chat operations of routers/chat.py.  The request body is        *)
(* validated (422) before the handler runs; the messages of a chat are     *)
(* kept in its row.                                                        *)
(***************************************************************************)
MaxMessages == 1
MAX_RATING == 5
MAX_COMMENT_LEN == 1000
MAX_CONTENT_LEN == 10000

\* `if current_user and chat.user_id != current_user.id` of get_chat,
\* update_chat, delete_chat, create_message and list_messages
AccessDenied(current_user, chat) ==
    IsSome(current_user) /\ chat.user_id # current_user

\* `if current_user and chat.user_id and chat.user_id != current_user.id`
RatingDenied(current_user, chat) ==
    IsSome(current_user) /\ IsSome(chat.user_id) /\ chat.user_id # current_user

\* The checks the five operations share: 0 when the request may proceed
ChatCheck(cred, chat_id) ==
    IF chat_id \notin ChatIds THEN 404
    ELSE IF AccessDenied(get_current_user_optional(cred), chats[chat_id]) THEN 403
    ELSE 0

\* GET /chats/{chat_id}
get_chat(cred, chat_id) ==
    IF ChatCheck(cred, chat_id) # 0 THEN ChatFailed(ChatCheck(cred, chat_id))
    ELSE ChatResult(200, chats, Some(chats[chat_id]))

\* DELETE /chats/{chat_id}
delete_chat(cred, chat_id) ==
    IF ChatCheck(cred, chat_id) # 0 THEN ChatFailed(ChatCheck(cred, chat_id))
    ELSE ChatResult(204, [chats EXCEPT ![chat_id].deleted = TRUE,
                                       ![chat_id].messages = <<>>], None)

\* ChatMessageCreate: content not blank and at most 10000 characters, role
\* "user" or "assistant"
validate_message(data) ==
    /\ strip(data.content) # <<>>
    /\ Len(data.content) <= MAX_CONTENT_LEN
    /\ data.role \in {"user", "assistant"}

\* POST /chats/{chat_id}/messages
create_message(cred, chat_id, data) ==
    IF ~validate_message(data) THEN ChatFailed(422)
    ELSE IF ChatCheck(cred, chat_id) # 0 THEN ChatFailed(ChatCheck(cred, chat_id))
    ELSE LET message == [role |-> data.role, content |-> data.content]
         IN  ChatResult(201, [chats EXCEPT ![chat_id].messages = Append(@, message)],
                        Some(message))

\* GET /chats/{chat_id}/messages: the first `limit` messages, oldest first
list_messages(cred, chat_id, limit) ==
    IF ChatCheck(cred, chat_id) # 0 THEN ChatFailed(ChatCheck(cred, chat_id))
    ELSE LET all == chats[chat_id].messages
         IN  ChatResult(200, chats,
                        Some(SubSeq(all, 1, IF Len(all) < limit THEN Len(all) ELSE limit)))

\* A faulty validate_rating, for testing the properties that rest on it: no
\* upper limit.
validate_rating_NoMax(v) == ~(v < 0)

\* ChatRatingCreate.validate_rating
validate_rating(v) == ~(v < 0 \/ v > MAX_RATING)

\* ChatRatingCreate.validate_comment
validate_comment(v) == ~(IsSome(v) /\ Len(Val(v)) > MAX_COMMENT_LEN)

\* A faulty RatedChat, for testing the properties that rest on it: a call
\* without comment keeps the comment stored before.
RatedChat_KeepComment(chat, data) ==
    [chat EXCEPT !.rating = Some(data.rating),
                 !.rating_comment = IF IsNone(data.comment) THEN @ ELSE data.comment,
                 !.rated_at = Some(now)]

\* Lines 247-251 of rate_chat
RatedChat(chat, data) ==
    [chat EXCEPT !.rating = Some(data.rating),
                 !.rating_comment = data.comment,
                 !.rated_at = Some(now)]

\* POST /chats/{chat_id}/rating
rate_chat(cred, chat_id, data) ==
    IF ~validate_rating(data.rating) \/ ~validate_comment(data.comment)
    THEN ChatFailed(422)
    ELSE IF chat_id \notin ChatIds THEN ChatFailed(404)
    ELSE IF RatingDenied(get_current_user_optional(cred), chats[chat_id])
    THEN ChatFailed(403)
    ELSE LET after == RatedChat(chats[chat_id], data)
         IN  ChatResult(200, [chats EXCEPT ![chat_id] = after],
                        Some([chat_id |-> chat_id, rating |-> after.rating,
                              rating_comment |-> after.rating_comment,
                              rated_at |-> after.rated_at]))

GetChat(cred, chat_id) ==
    ApplyChat("get_chat", get_chat(cred, chat_id), cred, [chat_id |-> chat_id])

DeleteChat(cred, chat_id) ==
    ApplyChat("delete_chat", delete_chat(cred, chat_id), cred, [chat_id |-> chat_id])

CreateMessage(cred, chat_id, data) ==
    /\ chat_id \in ChatIds => Len(chats[chat_id].messages) < MaxMessages
    /\ ApplyChat("create_message", create_message(cred, chat_id, data), cred,
                 [chat_id |-> chat_id])

ListMessages(cred, chat_id, limit) ==
    ApplyChat("list_messages", list_messages(cred, chat_id, limit), cred,
              [chat_id |-> chat_id])

RateChat(cred, chat_id, data) ==
    ApplyChat("rate_chat", rate_chat(cred, chat_id, data), cred,
              [chat_id |-> chat_id, rating |-> data.rating, comment |-> data.comment])

(***************************************************************************)
(* Access to chats: an anonymous client, the admin and an assistant create *)
(* chats and read, change, delete, extend and rate each other's.           *)
(***************************************************************************)
CONTENT_OK == <<"o", "i">>
COMMENT_OK == <<"o", "k">>

AccessCallers == {None} \cup {Some(create_access_token(u, now)) : u \in 1..2}
ChatTargets == 1..(MaxChats + 1)
MessageInputs == {[role |-> "user", content |-> CONTENT_OK],
                  [role |-> "user", content |-> << " " >>]}

AccessCreate ==
    \E cred \in AccessCallers :
        CreateChat(cred, [title |-> None, session_id |-> Some("client")])

AccessGet == \E cred \in AccessCallers, chat_id \in ChatTargets : GetChat(cred, chat_id)

AccessUpdate ==
    \E cred \in AccessCallers, chat_id \in ChatTargets :
        UpdateChat(cred, chat_id, [is_active |-> FALSE])

AccessDelete == \E cred \in AccessCallers, chat_id \in ChatTargets : DeleteChat(cred, chat_id)

AccessMessage ==
    \E cred \in AccessCallers, chat_id \in ChatTargets, data \in MessageInputs :
        CreateMessage(cred, chat_id, data)

AccessList == \E cred \in AccessCallers, chat_id \in ChatTargets : ListMessages(cred, chat_id, 1)

AccessRate ==
    \E cred \in AccessCallers, chat_id \in ChatTargets :
        RateChat(cred, chat_id, [rating |-> MAX_RATING, comment |-> None])

NextChatAccess ==
    \/ AccessCreate
    \/ AccessGet
    \/ AccessUpdate
    \/ AccessDelete
    \/ AccessMessage
    \/ AccessList
    \/ AccessRate

SpecChatAccess == Init /\ [][NextChatAccess]_vars

\* The six per-chat operations on one chat by one caller, with valid bodies
PerChatOps(cred, chat_id) ==
    << get_chat(cred, chat_id),
       update_chat(cred, chat_id, [is_active |-> FALSE]),
       delete_chat(cred, chat_id),
       create_message(cred, chat_id, [role |-> "user", content |-> CONTENT_OK]),
       list_messages(cred, chat_id, 1),
       rate_chat(cred, chat_id, [rating |-> MAX_RATING, comment |-> None]) >>

Succeeded(r) == r.status \in {200, 201, 204}

(***************************************************************************)
(* C21 as stated: each of the six per-chat operations answers an           *)
(* authenticated actor with 403, leaving the chats and messages as they    *)
(* were, exactly when the chat has a user_id other than the actor's; on a  *)
(* chat without user_id the actor is served.  Fails: five of the six       *)
(* compare chat.user_id with the actor's id without asking whether it is   *)
(* null, and refuse the actor on an anonymous chat; rate_chat does not.    *)
(***************************************************************************)
C21_SameRuleEverywhere ==
    \A cred \in AccessCallers, chat_id \in ChatIds :
        IsSome(get_current_user_optional(cred)) =>
            \A k \in 1..6 :
                LET r == PerChatOps(cred, chat_id)[k]
                    chat == chats[chat_id]
                IN  IF IsSome(chat.user_id) /\ chat.user_id # get_current_user_optional(cred)
                    THEN r.status = 403 /\ r.chats = chats
                    ELSE Succeeded(r)

(***************************************************************************)
(* C22 as stated: a caller without a valid access token is never served by *)
(* a per-chat operation on a chat whose user_id is set, and the chat stays *)
(* as it was.  Fails: without a current user the handlers check nothing.   *)
(***************************************************************************)
C22_AnonymousKeptOut ==
    \A cred \in AccessCallers \cup {Some(create_refresh_token(1, now))}, chat_id \in ChatIds :
        (IsNone(get_current_user_optional(cred)) /\ IsSome(chats[chat_id].user_id)) =>
            \A k \in 1..6 :
                LET r == PerChatOps(cred, chat_id)[k]
                IN  ~Succeeded(r) /\ r.chats = chats

(***************************************************************************)
(* Ratings: the chat of an anonymous client is rated by the client and by  *)
(* the admin, with ratings and comments on both sides of the limits, at    *)
(* different instants                                                      *)
(***************************************************************************)
CommentOfLen(n) == [i \in 1..n |-> "x"]

RatingCallers == {None, Some(create_access_token(1, now))}
RatingInputs ==
    [rating : {-1, 2, MAX_RATING, MAX_RATING + 1},
     comment : {None, Some(CommentOfLen(MAX_COMMENT_LEN)),
                Some(CommentOfLen(MAX_COMMENT_LEN + 1))}]

RatingCreate == CreateChat(None, [title |-> None, session_id |-> Some("client")])

RatingRate ==
    \E cred \in RatingCallers, chat_id \in ChatTargets, data \in RatingInputs :
        RateChat(cred, chat_id, data)

NextRating ==
    \/ Tick
    \/ RatingCreate
    \/ RatingRate

SpecRating == Init /\ [][NextRating]_vars

(***************************************************************************)
(* C23: in every reachable state the rating of each chat is null or an     *)
(* integer from 0 to 5 and a stored comment has at most 1000 characters;   *)
(* rate_chat with a rating below 0 or above 5, or with a comment of more   *)
(* than 1000 characters, answers 422 and leaves every chat as it was.      *)
(***************************************************************************)
C23_RatingInRange ==
    /\ \A i \in DOMAIN chats :
          /\ IsNone(chats[i].rating) \/ Val(chats[i].rating) \in 0..MAX_RATING
          /\ IsNone(chats[i].rating_comment)
                \/ Len(Val(chats[i].rating_comment)) <= MAX_COMMENT_LEN
    /\ \A cred \in RatingCallers, chat_id \in ChatTargets, data \in RatingInputs :
          (data.rating < 0 \/ data.rating > MAX_RATING
             \/ (IsSome(data.comment) /\ Len(Val(data.comment)) > MAX_COMMENT_LEN)) =>
              LET r == rate_chat(cred, chat_id, data)
              IN  r.status = 422 /\ r.chats = chats

\* A chat rated 5 with a comment of 1000 characters has just refused the
\* rating 6.
C23_Witness ==
    /\ resp.op = "rate_chat" /\ resp.status = 422
    /\ resp.req.rating = MAX_RATING + 1 /\ resp.req.chat_id \in ChatIds
    /\ chats[resp.req.chat_id].rating = Some(MAX_RATING)
    /\ chats[resp.req.chat_id].rating_comment = Some(CommentOfLen(MAX_COMMENT_LEN))

(***************************************************************************)
(* C24: in every step in which rate_chat succeeds, the chat's rating and   *)
(* rating_comment become those of the request (no comment in the request   *)
(* clears the stored one) and rated_at becomes the instant of the call; in *)
(* every other step the three columns of every chat stay as they were.  So *)
(* after any sequence of successful calls the chat holds the last one.     *)
(***************************************************************************)
C24_Step ==
    \A i \in DOMAIN chats :
        IF resp'.op = "rate_chat" /\ resp'.status = 200 /\ resp'.req.chat_id = i
        THEN /\ chats'[i].rating = Some(resp'.req.rating)
             /\ chats'[i].rating_comment = resp'.req.comment
             /\ chats'[i].rated_at = Some(now')
        ELSE /\ chats'[i].rating = chats[i].rating
             /\ chats'[i].rating_comment = chats[i].rating_comment
             /\ chats'[i].rated_at = chats[i].rated_at

C24_LastRatingWins == [][C24_Step]_vars

\* After two advances of the clock the chat has just been rated 2 without
\* comment: it holds 2, no comment and the instant of this call.
C24_Witness ==
    /\ resp.op = "rate_chat" /\ resp.status = 200
    /\ resp.req.rating = 2 /\ IsNone(resp.req.comment)
    /\ now = RefreshTTL + 1
    /\ chats[resp.req.chat_id].rating = Some(2)
    /\ IsNone(chats[resp.req.chat_id].rating_comment)
    /\ chats[resp.req.chat_id].rated_at = Some(now)

(***************************************************************************)
(* C25 as stated: a logout step revokes the actor's non-revoked row of the *)
(* presented token and, when the actor has no such row (unknown token,     *)
(* another user's token, token already revoked), changes no row, so that a *)
(* second logout with the same token leaves revoked_at as the first set    *)
(* it.  Fails: the lookup does not ask whether the row is revoked and the  *)
(* second logout stamps revoked_at again.                                  *)
(***************************************************************************)
C25_Step ==
    (resp'.op = "logout" /\ resp'.status = 204) =>
        LET tok == resp'.req.refresh_token
            mine == {i \in DOMAIN tokens :
                        /\ tokens[i].token = tok
                        /\ Some(tokens[i].user_id) = resp'.actor
                        /\ ~tokens[i].is_revoked}
        IN  /\ mine = {} => tokens' = tokens
            /\ \A i \in DOMAIN tokens :
                  IF i \in mine
                  THEN tokens'[i] = [tokens[i] EXCEPT !.is_revoked = TRUE,
                                                      !.revoked_at = Some(now)]
                  ELSE tokens'[i] = tokens[i]

C25_LogoutIdempotent == [][C25_Step]_vars

(***************************************************************************)
(* Concurrent creations.  A request runs its handler up to db.commit()     *)
(* against the database it sees (Begin) and commits later (Commit), after  *)
(* other requests may have committed.  `inflight` holds the requests that  *)
(* passed their checks and have not committed: the row each is about to    *)
(* insert.  The users table has UNIQUE(email): the commit of a row whose   *)
(* email is stored by then raises IntegrityError, which neither            *)
(* create_beneficiario nor register catches.                               *)
(***************************************************************************)
MaxInflight == 2

\* create_beneficiario up to db.commit(): the request is answered at once
\* when a check refuses it, and is in flight with its row otherwise
BeginCreateBeneficiario(cred, data) ==
    LET r == create_beneficiario(cred, data) IN
    IF r.status = 201
    THEN /\ inflight' = Append(inflight, [op |-> "create_beneficiario",
                                          actor |-> get_current_user(cred).user,
                                          row |-> r.users[Len(r.users)]])
         /\ resp' = NoResp
         /\ UNCHANGED <<users, tokens, now, orgs, donations, ledger, articles, chats>>
    ELSE /\ ApplyUsers("create_beneficiario", r, cred)

\* register up to its first db.commit()
BeginRegister(email, password, name, cpf) ==
    LET r == register(email, password, name, cpf) IN
    IF r.status = 201
    THEN /\ inflight' = Append(inflight, [op |-> "register", actor |-> None,
                                          row |-> r.users[Len(r.users)]])
         /\ resp' = NoResp
         /\ UNCHANGED <<users, tokens, now, orgs, donations, ledger, articles, chats>>
    ELSE /\ ApplyAuth("register", r, None, [email |-> email, cpf |-> cpf])

\* db.commit() of the k-th request in flight, and the rest of its handler
CommitInflight(k) ==
    LET request == inflight[k]
        r == CommitUsers(Append(users, request.row), 201, Some(Len(users) + 1))
        issued == IF request.op = "register" /\ r.status = 201
                  THEN IssueTokens(201, Len(users) + 1, r.users)
                  ELSE [status |-> r.status, users |-> r.users, tokens |-> tokens,
                        out |-> r.out]
    IN  /\ users' = issued.users
        /\ tokens' = issued.tokens
        /\ inflight' = [i \in 1..(Len(inflight) - 1) |->
                           IF i < k THEN inflight[i] ELSE inflight[i + 1]]
        /\ resp' = Resp(request.op, issued.status, request.actor,
                        [email |-> request.row.email], issued.out)
        /\ UNCHANGED <<now, orgs, donations, ledger, articles, chats>>

RaceCallers == {Some(create_access_token(u, now)) : u \in 1..2}
RaceCreateInputs ==
    [email : {EMAIL_NEW, EMAIL_NEW2}, name : {None}, password : {PW_GOOD},
     cpf : {None}, assistente_id : {2, 3}, org_id : {None}]

RaceBeginCreate ==
    /\ Len(inflight) < MaxInflight
    /\ Len(users) + Len(inflight) < MaxUsers
    /\ \E cred \in RaceCallers, data \in RaceCreateInputs : BeginCreateBeneficiario(cred, data)

RaceBeginRegister ==
    /\ Len(inflight) < MaxInflight
    /\ Len(users) + Len(inflight) < MaxUsers
    /\ Len(tokens) < MaxTokens
    /\ \E email \in {EMAIL_NEW, EMAIL_AS1} : BeginRegister(email, PW_GOOD, NAME_NEW, None)

RaceCommit == \E k \in DOMAIN inflight : CommitInflight(k)

NextRace ==
    \/ RaceBeginCreate
    \/ RaceBeginRegister
    \/ RaceCommit

SpecRace == Init /\ [][NextRace]_vars

(***************************************************************************)
(* C26 as stated: when a request that passed the existence check commits   *)
(* after another request stored the same email, no second row with that    *)
(* email is stored and the request is answered with the 400 of the         *)
(* sequential duplicate check.  Fails: the IntegrityError of the commit is *)
(* not caught and the request is answered 500.                             *)
(***************************************************************************)
C26_Step ==
    \A k \in DOMAIN inflight :
        (/\ inflight' # inflight
         /\ resp'.op = inflight[k].op
         /\ resp'.req = [email |-> inflight[k].row.email]
         /\ UsersWithEmail(inflight[k].row.email) # {}) =>
            /\ users' = users
            /\ resp'.status = 400

C26_LoserGetsConflict == [][C26_Step]_vars

(***************************************************************************)
(* C27 as stated: in every reachable state, a login with the password of   *)
(* an active user succeeds and adds exactly one RefreshToken row, not      *)
(* revoked, owned by that user and holding the refresh token returned,     *)
(* also when the user was issued a token at the same instant.  Fails: the  *)
(* token string depends on user id, expiry and type only, the second issue *)
(* at one instant repeats a stored string and the commit fails (500).      *)
(***************************************************************************)
C27_LoginAddsRow ==
    \A email \in AuthEmails :
        LET user == First(UsersWithEmail(email)) IN
        (/\ IsSome(user)
         /\ verify_password(PW_GOOD, users[Val(user)].password_hash)
         /\ users[Val(user)].is_active) =>
            LET r == login(email, PW_GOOD) IN
            /\ r.status = 200
            /\ Len(r.tokens) = Len(tokens) + 1
            /\ \A i \in DOMAIN tokens : r.tokens[i] = tokens[i]
            /\ LET row == r.tokens[Len(r.tokens)] IN
               /\ row.user_id = Val(user)
               /\ ~row.is_revoked
               /\ row.token = Val(r.out).refresh_token

\* base-k as _ensure_unique_slug writes it
Suffixed(base_slug, k) == base_slug \o << "-" >> \o str_int(k)

(***************************************************************************)
(* C28 as stated: _ensure_unique_slug returns the base slug ("article" for *)
(* an empty one) when no other article has it, and otherwise base-k for    *)
(* the smallest k >= 2 that no other article has, the article's own row    *)
(* left out on update; and an update that sends an article's own title     *)
(* leaves its slug as it is.  The first part holds.  The second fails: the *)
(* slug is computed anew from the title, so an article that holds base-2   *)
(* moves to base once the article that held base has been retitled.        *)
(***************************************************************************)
C28_SlugStableUnderSameTitle ==
    /\ \A title \in Titles, article_id \in {None} \cup {Some(i) : i \in ArticleIds} :
          LET slug == generate_slug(title)
              base_slug == IF slug = <<>> THEN DEFAULT_SLUG ELSE slug
              result == ensure_unique_slug(slug, article_id)
          IN  IF ~SlugTaken(base_slug, article_id) THEN result = base_slug
              ELSE \E k \in 2..(MaxArticles + 1) :
                      /\ result = Suffixed(base_slug, k)
                      /\ ~SlugTaken(result, article_id)
                      /\ \A j \in 2..(k - 1) : SlugTaken(Suffixed(base_slug, j), article_id)
    /\ \A cred \in ArticleCallers, article_id \in ArticleIds :
          LET r == update_article(cred, article_id,
                                  [title |-> Some(articles[article_id].title)])
          IN  r.status = 200 => r.articles[article_id].slug = articles[article_id].slug

(***************************************************************************)
(* PUT /orgs/{org_id}: OrgUpdate carries name, email and description only; *)
(* `data` maps the fields the request carries to their values              *)
(***************************************************************************)
update_org(cred, org_id, data) ==
    LET auth == get_current_user(cred) IN
    IF auth.status # 200 THEN OrgFailed(auth.status)
    ELSE IF org_id \notin OrgIds THEN OrgFailed(404)
    ELSE IF /\ Has(data, "email") /\ data.email # orgs[org_id].email
            /\ \E i \in OrgIds \ {org_id} : lower(orgs[i].email) = lower(data.email)
    THEN OrgFailed(400)
    ELSE LET org == orgs[org_id]
             after == [org EXCEPT
                          !.name = IF Has(data, "name") THEN data.name ELSE @,
                          !.email = IF Has(data, "email") THEN data.email ELSE @]
         IN  OrgResult(200, [orgs EXCEPT ![org_id] = after], Some([org_id |-> org_id]))

UpdateOrg(cred, org_id, data) ==
    ApplyOrg("update_org", update_org(cred, org_id, data), cred, [org_id |-> org_id])

(***************************************************************************)
(* The flags of organisations under all six writing endpoints, called by   *)
(* the admin and an assistant                                              *)
(***************************************************************************)
FlagCallers == {Some(create_access_token(u, now)) : u \in 1..2}

FlagCreate ==
    \E cred \in FlagCallers :
        CreateOrg(cred, [name |-> NAME_ONG, email |-> EMAIL_ONG], upper(URLSAFE_2))

FlagInvite ==
    \E cred \in FlagCallers, mail \in MailOutcomes :
        InviteOrgByEmail(cred, [name |-> NAME_ONG, email |-> EMAIL_ONG],
                         upper(URLSAFE_2), mail)

FlagUpdate ==
    \E cred \in FlagCallers, org_id \in OrgTargets,
       data \in {[name |-> NAME_SHORT], [email |-> upper(EMAIL_SEED_ORG)]} :
        UpdateOrg(cred, org_id, data)

FlagVerify == \E cred \in FlagCallers, org_id \in OrgTargets : VerifyOrgEmail(cred, org_id)

FlagApprove ==
    \E cred \in FlagCallers, payload \in ApproveOrgInputs :
        ApproveOrg(cred, payload, "sent")

FlagRegenerate ==
    \E cred \in FlagCallers, org_id \in OrgTargets :
        RegenerateInviteCode(cred, org_id, upper(URLSAFE_1))

NextOrgFlags ==
    \/ FlagCreate
    \/ FlagInvite
    \/ FlagUpdate
    \/ FlagVerify
    \/ FlagApprove
    \/ FlagRegenerate

SpecOrgFlags == Init /\ [][NextOrgFlags]_vars

(***************************************************************************)
(* C29: in every step of the org endpoints, every org that is approved     *)
(* afterwards is verified, an org that appears has verified and approved   *)
(* false, and an org that was verified stays verified (a rejection         *)
(* included).                                                              *)
(***************************************************************************)
C29_Step ==
    /\ \A i \in DOMAIN orgs' : orgs'[i].approved => orgs'[i].verified
    /\ \A i \in DOMAIN orgs' \ DOMAIN orgs : ~orgs'[i].verified /\ ~orgs'[i].approved
    /\ \A i \in DOMAIN orgs : orgs[i].verified => orgs'[i].verified
    /\ Len(orgs') >= Len(orgs)

C29_ApprovedImpliesVerified == [][C29_Step]_vars

\* One org, verified by the approval of an assistant, has just been
\* rejected and is still verified; the other was approved once.
C29_Witness ==
    /\ resp.op = "approve_org" /\ resp.status = 200 /\ ~resp.req.approved
    /\ resp.req.org_id = 2
    /\ orgs[2].verified /\ ~orgs[2].approved
    /\ orgs[1].approved /\ orgs[1].verified /\ IsSome(orgs[1].approved_by_id)
    /\ orgs[1].name = NAME_SHORT

(***************************************************************************)
(* C30: after every step of register, create_beneficiario,                 *)
(* update_beneficiario and vincular_beneficiario, every beneficiary with   *)
(* an assistente_id points to an existing user of role assistente, and a   *)
(* user added by register has role beneficiario and no assistant.          *)
(***************************************************************************)
C30_Step ==
    /\ \A b \in DOMAIN users' :
           users'[b].role = BENEFICIARIO /\ IsSome(users'[b].assistente_id)
               => /\ Val(users'[b].assistente_id) \in DOMAIN users'
                  /\ users'[Val(users'[b].assistente_id)].role = ASSISTENTE
    /\ resp'.op = "register" /\ Len(users') > Len(users)
           => /\ users'[Len(users')].role = BENEFICIARIO
              /\ users'[Len(users')].assistente_id = None

C30_LinksPointToAssistants == [][C30_Step]_vars

\* A registered user has just been linked to one assistant while a
\* beneficiary created through the API is linked to the other.
C30_Witness ==
    /\ resp.op = "vincular_beneficiario" /\ resp.status = 200
    /\ \E b, c \in Beneficiarios :
           /\ users[b].name = Some(NAME_NEW) /\ users[b].email = EMAIL_NEW
           /\ users[b].assistente_id = Some(3)
           /\ users[c].name = None /\ users[c].assistente_id = Some(2)

====
